---- MODULE Spec2Model ----
(***************************************************************************)
(* Event-sourced circuit editing of circuit-forge: the event store, the    *)
(* state reconstructor, the mutation service with its per-user undo/redo   *)
(* stacks, the permission service and the WebSocket gateway that           *)
(* dispatches messages to them.  One session is modelled; every collection *)
(* of the program is keyed by session code, so sessions do not interact.   *)
(***************************************************************************)
EXTENDS Integers, Sequences, FiniteSets, TLC

VARIABLES
    events,         \* the "events" collection, in insertion order (documents)
    snapshots,      \* the "snapshots" collection (set of documents)
    undo_stacks,    \* CircuitService._undo_stacks[session][user]
    redo_stacks,    \* CircuitService._redo_stacks[session][user]
    participants,   \* the "participants" collection: id -> record or NoParticipant
    edit_requests,  \* PermissionService._edit_requests[session]: id -> status
    room_manager,   \* RoomManager: _rooms[session] and _connections
    online,         \* connections whose handle_connection receive loop runs
    calls,          \* service calls suspended at an await (interleaved runs)
    simulations,    \* WebSocketHandler._simulations[session]: <<>> or <<engine>>
    engines,        \* two SimulationEngine instances driven by the same calls
    engine_calls,   \* the calls made on those two engines, in order
    last,           \* what the most recent handler returned, sent and broadcast
    chain           \* command / undo / redo sequence in progress by one user

vars == <<events, snapshots, undo_stacks, redo_stacks, participants,
          edit_requests, room_manager, online, calls, simulations, engines,
          engine_calls, last, chain>>

(***************************************************************************)
(* Bounds of the model.                                                    *)
(***************************************************************************)
MaxEvents == 4          \* events appended in the sequential specification
MaxDeepEvents == 5      \* events appended in the deeper sequential runs
SnapExtra == 2          \* events appended past the snapshot interval
MaxGatewayEvents == 2   \* events appended in the gateway specification
MaxConcEvents == 3      \* events appended in the interleaved specification
MaxSockets == 1         \* sockets a participant opens in the gateway specification
MaxRoomSockets == 2     \* sockets a participant opens in the room specification
MaxEngineCalls == 4     \* calls made on the engines in the engine specification
MaxTicks == 33          \* tick_clock calls in the counter specification
MaxSimCalls == 3        \* simulation messages in the simulation-session specification
MaxJoinEvents == 2      \* events appended while a participant joins
MaxSteps == 2           \* largest max_steps passed to run in the engine specification
MaxBroadcastEvents == 2 \* events appended in the broadcast specification
MaxSerialVersion == 1   \* largest version of a state in the serialization specification
StackExtra == 3         \* events beyond UNDO_LIMIT in the stack specification

(***************************************************************************)
(* Program constants.                                                      *)
(***************************************************************************)
SNAPSHOT_INTERVAL == 50
UNDO_LIMIT == 50

(***************************************************************************)
(* Participants and the inputs that clients send.                          *)
(***************************************************************************)
Teacher == "t"
Students == {"s1", "s2"}
Users == {Teacher} \cup Students

NoParticipant == [role |-> "none", can_edit |-> FALSE, is_active |-> FALSE]
NoRequest == "none"

Positions == {[x |-> 0, y |-> 0], [x |-> 1, y |-> 0]}
P0 == [x |-> 0, y |-> 0]
P1 == [x |-> 1, y |-> 0]

\* Pins as the component catalogue defines them for the two types used.
SwitchPins == << [id |-> "OUT", type |-> "output"] >>
NotPins == << [id |-> "A", type |-> "input"], [id |-> "Y", type |-> "output"] >>

ComponentIds == {"c1", "c2"}
ComponentInputs ==
    { [id |-> "c1", type |-> "SWITCH_TOGGLE", position |-> P0, pins |-> SwitchPins],
      [id |-> "c2", type |-> "NOT", position |-> P0, pins |-> NotPins] }

WireIds == {"w1", "w2"}
WireEnds ==
    { <<"c1", "OUT", "c2", "A">>,     \* switch output -> gate input
      <<"c2", "Y", "c2", "A">>,       \* gate output -> its own input
      <<"c2", "A", "c2", "Y">>,       \* input pin -> output pin
      <<"c1", "OUT", "c2", "Z">> }    \* no such pin
WireInputs ==
    { [id |-> i, from_component_id |-> e[1], from_pin_id |-> e[2],
       to_component_id |-> e[3], to_pin_id |-> e[4]] : i \in WireIds, e \in WireEnds }

AnnotationIds == {"a1"}
AnnotationInput(u, i) == [id |-> i, type |-> "text", user_id |-> u]

(***************************************************************************)
(* Pydantic models: model_dump(by_alias=True) and model_validate.          *)
(***************************************************************************)
ComponentValidate(d) ==
    [id |-> d.id, type |-> d.type, position |-> d.position, pins |-> d.pins]

WireDump(w) ==
    [id |-> w.id, fromComponentId |-> w.from_component_id, fromPinId |-> w.from_pin_id,
     toComponentId |-> w.to_component_id, toPinId |-> w.to_pin_id]

WireValidate(d) ==
    [id |-> d.id, from_component_id |-> d.fromComponentId, from_pin_id |-> d.fromPinId,
     to_component_id |-> d.toComponentId, to_pin_id |-> d.toPinId]

AnnotationDump(a) == [id |-> a.id, type |-> a.type, userId |-> a.user_id]

AnnotationValidate(d) == [id |-> d.id, type |-> d.type, user_id |-> d.userId]

PayloadDump(type, p) ==
    CASE type = "COMPONENT_ADDED" -> [component |-> p.component]
      [] type = "COMPONENT_MOVED" -> [componentId |-> p.component_id, position |-> p.position]
      [] type = "COMPONENT_DELETED" -> [componentId |-> p.component_id]
      [] type = "WIRE_ADDED" -> [wire |-> WireDump(p.wire)]
      [] type = "WIRE_DELETED" -> [wireId |-> p.wire_id]
      [] type = "ANNOTATION_ADDED" -> [annotation |-> AnnotationDump(p.annotation)]
      [] type = "ANNOTATION_DELETED" -> [annotationId |-> p.annotation_id]

PayloadValidate(type, d) ==
    CASE type = "COMPONENT_ADDED" -> [component |-> ComponentValidate(d.component)]
      [] type = "COMPONENT_MOVED" -> [component_id |-> d.componentId, position |-> d.position]
      [] type = "COMPONENT_DELETED" -> [component_id |-> d.componentId]
      [] type = "WIRE_ADDED" -> [wire |-> WireValidate(d.wire)]
      [] type = "WIRE_DELETED" -> [wire_id |-> d.wireId]
      [] type = "ANNOTATION_ADDED" -> [annotation |-> AnnotationValidate(d.annotation)]
      [] type = "ANNOTATION_DELETED" -> [annotation_id |-> d.annotationId]

\* An event object (BaseEvent subclass) and its stored document.
Event(type, version, user, payload) ==
    [type |-> type, version |-> version, user_id |-> user, payload |-> payload]

EventDump(e) ==
    [type |-> e.type, version |-> e.version, userId |-> e.user_id,
     payload |-> PayloadDump(e.type, e.payload)]

EventValidate(d) ==
    [type |-> d.type, version |-> d.version, user_id |-> d.userId,
     payload |-> PayloadValidate(d.type, d.payload)]

StateDump(s) ==
    [version |-> s.version, schemaVersion |-> s.schema_version,
     components |-> s.components,
     wires |-> [i \in 1..Len(s.wires) |-> WireDump(s.wires[i])],
     annotations |-> [i \in 1..Len(s.annotations) |-> AnnotationDump(s.annotations[i])]]

StateValidate(d) ==
    [version |-> d.version, schema_version |-> d.schemaVersion,
     components |-> [i \in 1..Len(d.components) |-> ComponentValidate(d.components[i])],
     wires |-> [i \in 1..Len(d.wires) |-> WireValidate(d.wires[i])],
     annotations |-> [i \in 1..Len(d.annotations) |-> AnnotationValidate(d.annotations[i])]]

SCHEMA_VERSION == "1.0.0"

create_empty ==
    [version |-> 0, schema_version |-> SCHEMA_VERSION,
     components |-> <<>>, wires |-> <<>>, annotations |-> <<>>]

(***************************************************************************)
(* Event repository.                                                       *)
(***************************************************************************)
\* An events collection without the unique index.
create_indexes_not_unique(evs, doc) == doc.version >= 1

\* The unique index on (sessionCode, version) of the events collection.
create_indexes(evs, doc) == \A i \in 1..Len(evs) : evs[i].version # doc.version

\* insert_one: the document is stored unless the unique index rejects it.
append_event(evs, event) == Append(evs, EventDump(event))

IsSortedByVersion(s) == \A i \in 1..(Len(s) - 1) : s[i].version <= s[i + 1].version

RECURSIVE InsertByVersion(_, _)
InsertByVersion(s, d) ==
    IF s = <<>> THEN <<d>>
    ELSE IF s[Len(s)].version <= d.version THEN Append(s, d)
    ELSE Append(InsertByVersion(SubSeq(s, 1, Len(s) - 1), d), s[Len(s)])

RECURSIVE SortByVersion(_)
SortByVersion(s) ==
    IF s = <<>> THEN <<>>
    ELSE InsertByVersion(SortByVersion(SubSeq(s, 1, Len(s) - 1)), s[Len(s)])

\* A query that also returns the event at the given version.
get_events_since_version_inclusive(evs, version) ==
    LET sel == SelectSeq(evs, LAMBDA d : d.version >= version)
    IN IF IsSortedByVersion(sel) THEN sel ELSE SortByVersion(sel)

get_events_since_version(evs, version) ==
    LET sel == SelectSeq(evs, LAMBDA d : d.version > version)
    IN IF IsSortedByVersion(sel) THEN sel ELSE SortByVersion(sel)

get_all_events(evs) == get_events_since_version(evs, 0)

\* The version of the first document in descending version order, 0 when the
\* session has no event.
get_latest_version(evs) ==
    IF evs = <<>> THEN 0
    ELSE LET d == CHOOSE i \in 1..Len(evs) : \A j \in 1..Len(evs) : evs[j].version <= evs[i].version
         IN evs[d].version

save_snapshot(snaps, version, state) ==
    snaps \cup {[version |-> version, state |-> StateDump(state)]}

NoSnapshot == [version |-> -1]

get_latest_snapshot(snaps) ==
    IF snaps = {} THEN NoSnapshot
    ELSE CHOOSE s \in snaps : \A o \in snaps : o.version <= s.version

(***************************************************************************)
(* State reconstructor.                                                    *)
(***************************************************************************)
RemoveById(s, id) == SelectSeq(s, LAMBDA x : x.id # id)

\* The first component with the id gets the position (loop with break).
RECURSIVE MoveFirst(_, _, _, _)
MoveFirst(s, i, id, position) ==
    IF i > Len(s) THEN s
    ELSE IF s[i].id = id THEN [s EXCEPT ![i].position = position]
    ELSE MoveFirst(s, i + 1, id, position)

apply_event(state, d) ==
    LET p == d.payload
    IN CASE d.type = "COMPONENT_ADDED" ->
              [state EXCEPT !.components = Append(@, ComponentValidate(p.component)),
                            !.version = d.version]
         [] d.type = "COMPONENT_MOVED" ->
              [state EXCEPT !.components = MoveFirst(@, 1, p.componentId, p.position),
                            !.version = d.version]
         [] d.type = "COMPONENT_DELETED" ->
              [state EXCEPT !.components = RemoveById(@, p.componentId),
                            !.version = d.version]
         [] d.type = "WIRE_ADDED" ->
              [state EXCEPT !.wires = Append(@, WireValidate(p.wire)),
                            !.version = d.version]
         [] d.type = "WIRE_DELETED" ->
              [state EXCEPT !.wires = RemoveById(@, p.wireId),
                            !.version = d.version]
         [] d.type = "ANNOTATION_ADDED" ->
              [state EXCEPT !.annotations = Append(@, AnnotationValidate(p.annotation)),
                            !.version = d.version]
         [] d.type = "ANNOTATION_DELETED" ->
              [state EXCEPT !.annotations = RemoveById(@, p.annotationId),
                            !.version = d.version]
         [] OTHER -> state

\* The loop over the events: evs[lo], ..., evs[hi] applied in this order.  The
\* range is split in halves, the first half evaluated before the second is
\* applied (the test on the version only fixes this order), to keep the
\* evaluation shallow.
RECURSIVE Fold(_, _, _, _)
Fold(state, evs, lo, hi) ==
    IF lo > hi THEN state
    ELSE IF lo = hi THEN apply_event(state, evs[lo])
    ELSE LET mid == (lo + hi) \div 2
             head == Fold(state, evs, lo, mid)
         IN IF head.version >= 0 THEN Fold(head, evs, mid + 1, hi) ELSE head

get_circuit_state(snaps, evs) ==
    LET snapshot == get_latest_snapshot(snaps)
        start == IF snapshot.version >= 0 THEN StateValidate(snapshot.state) ELSE create_empty
        start_version == IF snapshot.version >= 0 THEN snapshot.version ELSE 0
        since == get_events_since_version(evs, start_version)
    IN Fold(start, since, 1, Len(since))

(***************************************************************************)
(* Mutation service.  A service operation takes the stored data            *)
(* db = [events, snapshots, undo, redo] and yields the data after the call *)
(* with its outcome: code, the events it returned and the state it         *)
(* returned.                                                               *)
(***************************************************************************)
NoEvent == [type |-> "NONE"]

Db == [events |-> events, snapshots |-> snapshots,
       undo |-> undo_stacks, redo |-> redo_stacks]

\* The call raised or returned None before storing anything.
Raised(db, code) ==
    [events |-> db.events, snapshots |-> db.snapshots, undo |-> db.undo,
     redo |-> db.redo, code |-> code, ret |-> <<>>,
     state |-> get_circuit_state(db.snapshots, db.events)]

get_next_version(evs) == get_latest_version(evs) + 1

maybe_create_snapshot(snaps, evs, version) ==
    IF version % SNAPSHOT_INTERVAL = 0
    THEN save_snapshot(snaps, version, get_circuit_state(snaps, evs))
    ELSE snaps

push_undo_every_user(stacks, u, event) ==
    [b \in DOMAIN stacks |->
        LET s == Append(stacks[b], event)
        IN IF Len(s) > UNDO_LIMIT THEN Tail(s) ELSE s]

push_undo(stacks, u, event) ==
    LET s == Append(stacks[u], event)
    IN [stacks EXCEPT ![u] = IF Len(s) > UNDO_LIMIT THEN Tail(s) ELSE s]

clear_redo(stacks, u) == [stacks EXCEPT ![u] = <<>>]

\* Common tail of the single-event commands: append, push undo, clear redo,
\* reconstruct.
append_and_record(db, u, event, snaps) ==
    [events |-> append_event(db.events, event), snapshots |-> snaps,
     undo |-> push_undo(db.undo, u, event), redo |-> clear_redo(db.redo, u),
     code |-> "OK", ret |-> <<event>>,
     state |-> get_circuit_state(snaps, append_event(db.events, event))]

add_component(db, u, component) ==
    LET version == get_next_version(db.events)
        event == Event("COMPONENT_ADDED", version, u, [component |-> component])
    IN IF ~create_indexes(db.events, EventDump(event)) THEN Raised(db, "DuplicateKeyError")
       ELSE append_and_record(db, u, event,
                maybe_create_snapshot(db.snapshots, append_event(db.events, event), version))

move_component(db, u, component_id, position) ==
    LET state == get_circuit_state(db.snapshots, db.events)
        version == get_next_version(db.events)
        event == Event("COMPONENT_MOVED", version, u,
                       [component_id |-> component_id, position |-> position])
    IN IF ~\E i \in 1..Len(state.components) : state.components[i].id = component_id
       THEN Raised(db, "NOT_FOUND")
       ELSE IF ~create_indexes(db.events, EventDump(event)) THEN Raised(db, "DuplicateKeyError")
       ELSE append_and_record(db, u, event, db.snapshots)

\* A cascade that looks only at the wires leaving the component.
connected_wires_from_only(state, component_id) ==
    SelectSeq(state.wires, LAMBDA w : w.from_component_id = component_id)

connected_wires(state, component_id) ==
    SelectSeq(state.wires, LAMBDA w : w.from_component_id = component_id
                                      \/ w.to_component_id = component_id)

\* The loop of delete_component: one WireDeleted event per connected wire,
\* each under the version read just before it is appended.
RECURSIVE delete_wires(_, _, _, _, _)
delete_wires(evs, ret, wires, i, u) ==
    IF i > Len(wires) THEN [events |-> evs, ret |-> ret]
    ELSE LET event == Event("WIRE_DELETED", get_next_version(evs), u,
                            [wire_id |-> wires[i].id])
         IN delete_wires(append_event(evs, event), Append(ret, event), wires, i + 1, u)

RECURSIVE push_all(_, _, _, _)
push_all(stacks, u, evs, i) ==
    IF i > Len(evs) THEN stacks ELSE push_all(push_undo(stacks, u, evs[i]), u, evs, i + 1)

delete_component(db, u, component_id) ==
    LET state == get_circuit_state(db.snapshots, db.events)
        w == delete_wires(db.events, <<>>, connected_wires(state, component_id), 1, u)
        event == Event("COMPONENT_DELETED", get_next_version(w.events), u,
                       [component_id |-> component_id])
        evs == append_event(w.events, event)
        ret == Append(w.ret, event)
    IN IF ~\E i \in 1..Len(state.components) : state.components[i].id = component_id
       THEN Raised(db, "NOT_FOUND")
       ELSE [events |-> evs, snapshots |-> db.snapshots,
             undo |-> push_all(db.undo, u, ret, 1), redo |-> clear_redo(db.redo, u),
             code |-> "OK", ret |-> ret, state |-> get_circuit_state(db.snapshots, evs)]

\* The code of the first check that fails, "OK" when none does.
\* A validation that looks for the endpoints before it looks at the wires.
validate_wire_connection_endpoints_first(state, wire) ==
    LET from_cs == SelectSeq(state.components, LAMBDA c : c.id = wire.from_component_id)
        to_cs == SelectSeq(state.components, LAMBDA c : c.id = wire.to_component_id)
        from_ps == IF from_cs = <<>> THEN <<>>
                   ELSE SelectSeq(from_cs[1].pins, LAMBDA p : p.id = wire.from_pin_id)
        to_ps == IF to_cs = <<>> THEN <<>>
                 ELSE SelectSeq(to_cs[1].pins, LAMBDA p : p.id = wire.to_pin_id)
    IN IF from_cs = <<>> \/ from_ps = <<>> \/ to_cs = <<>> \/ to_ps = <<>>
       THEN "INVALID_WIRE"
       ELSE IF \E i \in 1..Len(state.wires) :
             /\ state.wires[i].from_component_id = wire.from_component_id
             /\ state.wires[i].from_pin_id = wire.from_pin_id
             /\ state.wires[i].to_component_id = wire.to_component_id
             /\ state.wires[i].to_pin_id = wire.to_pin_id
       THEN "DUPLICATE_WIRE"
       ELSE IF \E i \in 1..Len(state.wires) :
             /\ state.wires[i].to_component_id = wire.to_component_id
             /\ state.wires[i].to_pin_id = wire.to_pin_id
       THEN "INPUT_ALREADY_CONNECTED"
       ELSE IF from_ps[1].type # "output" \/ to_ps[1].type # "input"
       THEN "INVALID_WIRE_DIRECTION"
       ELSE "OK"

validate_wire_connection(state, wire) ==
    LET from_cs == SelectSeq(state.components, LAMBDA c : c.id = wire.from_component_id)
        to_cs == SelectSeq(state.components, LAMBDA c : c.id = wire.to_component_id)
        from_ps == IF from_cs = <<>> THEN <<>>
                   ELSE SelectSeq(from_cs[1].pins, LAMBDA p : p.id = wire.from_pin_id)
        to_ps == IF to_cs = <<>> THEN <<>>
                 ELSE SelectSeq(to_cs[1].pins, LAMBDA p : p.id = wire.to_pin_id)
    IN IF \E i \in 1..Len(state.wires) :
             /\ state.wires[i].from_component_id = wire.from_component_id
             /\ state.wires[i].from_pin_id = wire.from_pin_id
             /\ state.wires[i].to_component_id = wire.to_component_id
             /\ state.wires[i].to_pin_id = wire.to_pin_id
       THEN "DUPLICATE_WIRE"
       ELSE IF \E i \in 1..Len(state.wires) :
             /\ state.wires[i].to_component_id = wire.to_component_id
             /\ state.wires[i].to_pin_id = wire.to_pin_id
       THEN "INPUT_ALREADY_CONNECTED"
       ELSE IF from_cs = <<>> \/ from_ps = <<>> \/ to_cs = <<>> \/ to_ps = <<>>
       THEN "INVALID_WIRE"
       ELSE IF from_ps[1].type # "output" \/ to_ps[1].type # "input"
       THEN "INVALID_WIRE_DIRECTION"
       ELSE "OK"

\* An add_wire that stores the event before it reports the failed validation.
add_wire_store_first(db, u, wire) ==
    LET state == get_circuit_state(db.snapshots, db.events)
        code == validate_wire_connection(state, wire)
        event == Event("WIRE_ADDED", get_next_version(db.events), u, [wire |-> wire])
    IN [append_and_record(db, u, event, db.snapshots) EXCEPT !.code = code]

add_wire(db, u, wire) ==
    LET state == get_circuit_state(db.snapshots, db.events)
        code == validate_wire_connection(state, wire)
        event == Event("WIRE_ADDED", get_next_version(db.events), u, [wire |-> wire])
    IN IF code # "OK" THEN Raised(db, code)
       ELSE IF ~create_indexes(db.events, EventDump(event)) THEN Raised(db, "DuplicateKeyError")
       ELSE append_and_record(db, u, event, db.snapshots)

delete_wire(db, u, wire_id) ==
    LET state == get_circuit_state(db.snapshots, db.events)
        event == Event("WIRE_DELETED", get_next_version(db.events), u, [wire_id |-> wire_id])
    IN IF ~\E i \in 1..Len(state.wires) : state.wires[i].id = wire_id
       THEN Raised(db, "NOT_FOUND")
       ELSE IF ~create_indexes(db.events, EventDump(event)) THEN Raised(db, "DuplicateKeyError")
       ELSE append_and_record(db, u, event, db.snapshots)

add_annotation(db, u, annotation) ==
    LET event == Event("ANNOTATION_ADDED", get_next_version(db.events), u,
                       [annotation |-> annotation])
    IN IF ~create_indexes(db.events, EventDump(event)) THEN Raised(db, "DuplicateKeyError")
       ELSE append_and_record(db, u, event, db.snapshots)

delete_annotation(db, u, annotation_id) ==
    LET state == get_circuit_state(db.snapshots, db.events)
        event == Event("ANNOTATION_DELETED", get_next_version(db.events), u,
                       [annotation_id |-> annotation_id])
    IN IF ~\E i \in 1..Len(state.annotations) : state.annotations[i].id = annotation_id
       THEN Raised(db, "NOT_FOUND")
       ELSE IF ~create_indexes(db.events, EventDump(event)) THEN Raised(db, "DuplicateKeyError")
       ELSE append_and_record(db, u, event, db.snapshots)

Min(S) == CHOOSE x \in S : \A y \in S : x <= y
Max(S) == CHOOSE x \in S : \A y \in S : y <= x

\* The event that undoes `event`, NoEvent when the history holds none.
create_inverse_event(evs, u, event) ==
    LET version == get_next_version(evs)
        all == get_all_events(evs)
        p == event.payload
    IN CASE event.type = "COMPONENT_ADDED" ->
              Event("COMPONENT_DELETED", version, u, [component_id |-> p.component.id])
         [] event.type = "COMPONENT_DELETED" ->
              LET idx == {i \in 1..Len(all) : /\ all[i].type = "COMPONENT_ADDED"
                                              /\ all[i].payload.component.id = p.component_id}
              IN IF idx = {} THEN NoEvent
                 ELSE Event("COMPONENT_ADDED", version, u,
                            [component |-> ComponentValidate(all[Min(idx)].payload.component)])
         [] event.type = "COMPONENT_MOVED" ->
              LET idx == {i \in 1..Len(all) :
                             \/ /\ all[i].type = "COMPONENT_ADDED"
                                /\ all[i].payload.component.id = p.component_id
                             \/ /\ all[i].type = "COMPONENT_MOVED"
                                /\ all[i].payload.componentId = p.component_id}
                  e == all[Max(idx)]
                  prev_position == IF e.type = "COMPONENT_ADDED"
                                   THEN e.payload.component.position
                                   ELSE e.payload.position
              IN IF idx = {} THEN NoEvent
                 ELSE Event("COMPONENT_MOVED", version, u,
                            [component_id |-> p.component_id, position |-> prev_position])
         [] event.type = "WIRE_ADDED" ->
              Event("WIRE_DELETED", version, u, [wire_id |-> p.wire.id])
         [] event.type = "WIRE_DELETED" ->
              LET idx == {i \in 1..Len(all) : /\ all[i].type = "WIRE_ADDED"
                                              /\ all[i].payload.wire.id = p.wire_id}
              IN IF idx = {} THEN NoEvent
                 ELSE Event("WIRE_ADDED", version, u,
                            [wire |-> WireValidate(all[Min(idx)].payload.wire)])
         [] event.type = "ANNOTATION_ADDED" ->
              Event("ANNOTATION_DELETED", version, u, [annotation_id |-> p.annotation.id])
         [] event.type = "ANNOTATION_DELETED" ->
              LET idx == {i \in 1..Len(all) : /\ all[i].type = "ANNOTATION_ADDED"
                                              /\ all[i].payload.annotation.id = p.annotation_id}
              IN IF idx = {} THEN NoEvent
                 ELSE Event("ANNOTATION_ADDED", version, u,
                            [annotation |-> AnnotationValidate(all[Min(idx)].payload.annotation)])
         [] OTHER -> NoEvent

\* An undo that erases the newest stored event instead of appending its inverse.
undo_erasing(db, u) ==
    LET undo_stack == db.undo[u]
        evs == SubSeq(db.events, 1, Len(db.events) - 1)
    IN IF undo_stack = <<>> THEN Raised(db, "NONE")
       ELSE [events |-> evs, snapshots |-> db.snapshots,
             undo |-> [db.undo EXCEPT ![u] = SubSeq(undo_stack, 1, Len(undo_stack) - 1)],
             redo |-> [db.redo EXCEPT ![u] = Append(@, undo_stack[Len(undo_stack)])],
             code |-> "OK", ret |-> <<>>,
             state |-> get_circuit_state(db.snapshots, evs)]

undo(db, u) ==
    LET undo_stack == db.undo[u]
        last_event == undo_stack[Len(undo_stack)]
        popped == [db.undo EXCEPT ![u] = SubSeq(undo_stack, 1, Len(undo_stack) - 1)]
        inverse_event == create_inverse_event(db.events, u, last_event)
        evs == append_event(db.events, inverse_event)
    IN IF undo_stack = <<>> THEN Raised(db, "NONE")
       ELSE IF inverse_event = NoEvent THEN [Raised(db, "NONE") EXCEPT !.undo = popped]
       ELSE IF ~create_indexes(db.events, EventDump(inverse_event))
       THEN [Raised(db, "DuplicateKeyError") EXCEPT !.undo = popped]
       ELSE [events |-> evs, snapshots |-> db.snapshots, undo |-> popped,
             redo |-> [db.redo EXCEPT ![u] = Append(@, last_event)],
             code |-> "OK", ret |-> <<inverse_event>>,
             state |-> get_circuit_state(db.snapshots, evs)]

recreate_event_with_version(event, version) ==
    EventValidate([EventDump(event) EXCEPT !.version = version])

redo(db, u) ==
    LET redo_stack == db.redo[u]
        event_to_redo == redo_stack[Len(redo_stack)]
        popped == [db.redo EXCEPT ![u] = SubSeq(redo_stack, 1, Len(redo_stack) - 1)]
        new_event == recreate_event_with_version(event_to_redo, get_next_version(db.events))
        evs == append_event(db.events, new_event)
    IN IF redo_stack = <<>> THEN Raised(db, "NONE")
       ELSE IF ~create_indexes(db.events, EventDump(new_event))
       THEN [Raised(db, "DuplicateKeyError") EXCEPT !.redo = popped]
       ELSE [events |-> evs, snapshots |-> db.snapshots,
             undo |-> [db.undo EXCEPT ![u] = Append(@, new_event)], redo |-> popped,
             code |-> "OK", ret |-> <<new_event>>,
             state |-> get_circuit_state(db.snapshots, evs)]

(***************************************************************************)
(* Permission service and room manager.                                    *)
(***************************************************************************)
\* "OK", or the code of the exception check_edit_permission raises.
check_edit_permission(parts, p) ==
    IF parts[p] = NoParticipant THEN "NOT_FOUND"
    ELSE IF ~parts[p].can_edit THEN "FORBIDDEN"
    ELSE "OK"

\* The record join_session creates for a new participant.
join_session(new_id, creator_participant_id) ==
    [role |-> IF new_id = creator_participant_id THEN "teacher" ELSE "student",
     can_edit |-> (new_id = creator_participant_id), is_active |-> TRUE]

\* update_one with $set: no document, no change.
update_can_edit(parts, id, can_edit) ==
    IF parts[id] = NoParticipant THEN parts ELSE [parts EXCEPT ![id].can_edit = can_edit]

update_active_status(parts, id, is_active) ==
    IF parts[id] = NoParticipant THEN parts ELSE [parts EXCEPT ![id].is_active = is_active]

delete_participant(parts, id) == [parts EXCEPT ![id] = NoParticipant]

\* The permission operations yield the participants and edit requests after
\* the call and "OK" or the code of the exception raised.
Permission(parts, reqs, code) == [participants |-> parts, edit_requests |-> reqs, code |-> code]

request_edit_access(parts, reqs, p) ==
    IF parts[p] = NoParticipant THEN Permission(parts, reqs, "NOT_FOUND")
    ELSE IF parts[p].can_edit THEN Permission(parts, reqs, "FORBIDDEN")
    ELSE IF parts[p].role = "teacher" THEN Permission(parts, reqs, "FORBIDDEN")
    ELSE IF reqs[p] = "pending" THEN Permission(parts, reqs, "OK")
    ELSE Permission(parts, [reqs EXCEPT ![p] = "pending"], "OK")

approve_edit_request(parts, reqs, teacher_id, student_id) ==
    IF parts[teacher_id] = NoParticipant THEN Permission(parts, reqs, "NOT_FOUND")
    ELSE IF parts[teacher_id].role # "teacher" THEN Permission(parts, reqs, "FORBIDDEN")
    ELSE IF reqs[student_id] # "pending" THEN Permission(parts, reqs, "NOT_FOUND")
    ELSE Permission(update_can_edit(parts, student_id, TRUE),
                    [reqs EXCEPT ![student_id] = "approved"], "OK")

deny_edit_request(parts, reqs, teacher_id, student_id) ==
    IF parts[teacher_id] = NoParticipant THEN Permission(parts, reqs, "NOT_FOUND")
    ELSE IF parts[teacher_id].role # "teacher" THEN Permission(parts, reqs, "FORBIDDEN")
    ELSE IF reqs[student_id] # "pending" THEN Permission(parts, reqs, "NOT_FOUND")
    ELSE Permission(parts, [reqs EXCEPT ![student_id] = "denied"], "OK")

\* A revoke that does not look at the role of its target.
revoke_edit_permission_any_role(parts, reqs, teacher_id, student_id) ==
    IF parts[teacher_id] = NoParticipant THEN Permission(parts, reqs, "NOT_FOUND")
    ELSE IF parts[teacher_id].role # "teacher" THEN Permission(parts, reqs, "FORBIDDEN")
    ELSE IF parts[student_id] = NoParticipant THEN Permission(parts, reqs, "NOT_FOUND")
    ELSE Permission(update_can_edit(parts, student_id, FALSE),
                    [reqs EXCEPT ![student_id] = NoRequest], "OK")

revoke_edit_permission(parts, reqs, teacher_id, student_id) ==
    IF parts[teacher_id] = NoParticipant THEN Permission(parts, reqs, "NOT_FOUND")
    ELSE IF parts[teacher_id].role # "teacher" THEN Permission(parts, reqs, "FORBIDDEN")
    ELSE IF parts[student_id] = NoParticipant THEN Permission(parts, reqs, "NOT_FOUND")
    ELSE IF parts[student_id].role = "teacher" THEN Permission(parts, reqs, "FORBIDDEN")
    ELSE Permission(update_can_edit(parts, student_id, FALSE),
                    [reqs EXCEPT ![student_id] = NoRequest], "OK")

\* One ConnectionInfo object per accepted socket; objects are compared by
\* identity, which the socket number stands for.
ConnectionInfo(websocket, participant_id) ==
    [websocket |-> websocket, participant_id |-> participant_id]

NoConnection == ConnectionInfo(0, "none")

\* RoomManager(): no room, no connection.  rooms is _rooms[session] (the
\* entry exists when the set is not empty), connections is _connections.
RoomManager == [rooms |-> {}, connections |-> [p \in Users |-> NoConnection]]

\* RoomManager.connect: the connection joins the room and replaces whatever
\* _connections held for the participant.
connect(rm, conn) ==
    [rooms |-> rm.rooms \cup {conn},
     connections |-> [rm.connections EXCEPT ![conn.participant_id] = conn]]

\* RoomManager.disconnect: pops the connection registered for the
\* participant and discards that one from the room.
disconnect(rm, participant_id) ==
    IF participant_id \notin Users \/ rm.connections[participant_id] = NoConnection THEN rm
    ELSE [rooms |-> rm.rooms \ {rm.connections[participant_id]},
          connections |-> [rm.connections EXCEPT ![participant_id] = NoConnection]]

\* The connections a message for the participant is delivered to.
send_to_participant(rm, participant_id) ==
    IF participant_id \notin Users \/ rm.connections[participant_id] = NoConnection THEN {}
    ELSE {rm.connections[participant_id]}

\* The connections a room broadcast is delivered to; exclude is the set of
\* participant ids given as exclude_participant (empty for None).
broadcast_to_room(rm, exclude) == {conn \in rm.rooms : conn.participant_id \notin exclude}

\* The connections of the model, and the registry when each of the given
\* participants holds one registered connection.
\* websocket.send_json: the send succeeds on an open socket and raises on a
\* closed one.
send_json(conn, open) == conn \in open

\* RoomManager._send_safe: TRUE when the message was sent, FALSE when the
\* send raised; the exception is caught.
send_safe(conn, open) == IF send_json(conn, open) THEN TRUE ELSE FALSE

gather_until_failure(conns, open) ==
    IF \A conn \in conns : send_safe(conn, open) THEN conns ELSE {}

\* asyncio.gather over the sends of a broadcast: every send is attempted,
\* whatever the others return.  The connections the message reached.
gather(conns, open) == {conn \in conns : send_safe(conn, open)}

\* The connections each message of a handler reached.
deliver(msgs, open) == [i \in 1..Len(msgs) |-> gather(msgs[i].to, open)]

Sockets(max) == {ConnectionInfo(w, p) : w \in 1..max, p \in Users}

Connections == Sockets(MaxRoomSockets)

Registered(ps) == [rooms |-> {ConnectionInfo(1, p) : p \in ps},
                   connections |-> [p \in Users |-> IF p \in ps THEN ConnectionInfo(1, p)
                                                    ELSE NoConnection]]

\* A message of the given type and the connections it is delivered to.
Message(type, to) == [type |-> type, to |-> to]

AppErrors == {"NOT_FOUND", "FORBIDDEN", "DUPLICATE_WIRE", "INPUT_ALREADY_CONNECTED",
              "INVALID_WIRE", "INVALID_WIRE_DIRECTION"}

(***************************************************************************)
(* Simulation engine (SimulationEngine): an event queue ordered by time    *)
(* and sequence number, the pin values, and the outputs of each component. *)
(* Dictionaries that the code iterates are sequences in insertion order;   *)
(* a pin key "component:pin" is the pair <<component, pin>>.                *)
(***************************************************************************)
HIGH == "1"
LOW == "0"
Z == "Z"
X == "X"

\* dict.get(key, default) and dict[key] = value.
Get(d, key, default) == IF key \in DOMAIN d THEN d[key] ELSE default

Put(d, key, value) == [k \in DOMAIN d \cup {key} |-> IF k = key THEN value ELSE d[k]]

\* The simulation Event dataclass.
SimulationEvent(time, seq, component_id, pin_id, value) ==
    [time |-> time, seq |-> seq, component_id |-> component_id, pin_id |-> pin_id,
     value |-> value]

\* The order of two queued events when only their times are compared.
event_lt_time_only(a, b) == a.time < b.time

\* Event.__lt__ as dataclass(order=True) generates it: by (time, seq).
event_lt(a, b) == a.time < b.time \/ (a.time = b.time /\ a.seq < b.seq)

\* A pop that may return any queued event, whatever its time and seq.
heap_min_any(evs) == evs

\* The events heapq.heappop may return: those no other queued event precedes.
heap_min(evs) == {e \in evs : \A o \in evs : ~event_lt(o, e)}

heappop(evs) == CHOOSE e \in heap_min(evs) : TRUE

\* SimulationEngine(): the engine before a circuit is loaded.
SimulationEngine ==
    [time |-> 0, events |-> {}, seq |-> 0, components |-> <<>>, wires |-> <<>>,
     outputs |-> <<>>, internal |-> <<>>, pin_values |-> <<>>, connections |-> <<>>]

\* self.components.get(component_id): the last component loaded under the id,
\* or none.
NoComponent == [id |-> "none", type |-> "none", pins |-> <<>>]

components_get(e, component_id) ==
    LET at == {i \in 1..Len(e.components) : e.components[i].id = component_id}
    IN IF at = {} THEN NoComponent ELSE e.components[Max(at)]

\* props.get("state") of a component; clients that send no properties get
\* the default, an empty dictionary.
props_state(comp) == IF "properties" \in DOMAIN comp THEN comp.properties.state ELSE FALSE

\* The connection map after the wires up to the i-th: from-key -> to-keys, in
\* the order the keys were first inserted.
RECURSIVE build_connections(_, _)
build_connections(wires, i) ==
    IF i = 0 THEN <<>>
    ELSE LET conns == build_connections(wires, i - 1)
             from_key == <<wires[i].from_component_id, wires[i].from_pin_id>>
             to_key == <<wires[i].to_component_id, wires[i].to_pin_id>>
             at == {k \in 1..Len(conns) : conns[k].from = from_key}
         IN IF at = {} THEN Append(conns, [from |-> from_key, to |-> <<to_key>>])
            ELSE [conns EXCEPT ![Min(at)].to = Append(@, to_key)]

\* self.connections.get(pin_key, []).
connections_get(e, pin_key) ==
    LET at == {k \in 1..Len(e.connections) : e.connections[k].from = pin_key}
    IN IF at = {} THEN <<>> ELSE e.connections[Min(at)].to

\* The outputs _init_component gives a component, as pin -> value pairs in
\* the order they are stored.
RECURSIVE output_pins_low(_, _)
output_pins_low(pins, i) ==
    IF i = 0 THEN <<>>
    ELSE IF pins[i].type = "output"
    THEN Append(output_pins_low(pins, i - 1), <<pins[i].id, LOW>>)
    ELSE output_pins_low(pins, i - 1)

initial_outputs(comp) ==
    IF comp.type \in {"CONST_HIGH", "VCC_5V", "VCC_3V3"} THEN << <<"OUT", HIGH>> >>
    ELSE IF comp.type \in {"CONST_LOW", "GROUND"} THEN << <<"OUT", LOW>> >>
    ELSE IF comp.type = "SWITCH_TOGGLE"
    THEN << <<"OUT", IF props_state(comp) THEN HIGH ELSE LOW>> >>
    ELSE IF comp.type = "CLOCK" THEN << <<"CLK", LOW>> >>
    ELSE output_pins_low(comp.pins, Len(comp.pins))

RECURSIVE put_all(_, _, _, _)
put_all(e, component_id, outs, i) ==
    IF i = 0 THEN e
    ELSE LET d == put_all(e, component_id, outs, i - 1)
         IN [d EXCEPT !.outputs[component_id] = Put(@, outs[i][1], outs[i][2])]

\* _init_component: the outputs of the component's state, the clock phase,
\* and then every output of that state copied to the pin values.
init_component(e, comp) ==
    LET outs == initial_outputs(comp)
        set == put_all(e, comp.id, outs, Len(outs))
        clocked == IF comp.type = "CLOCK"
                   THEN [set EXCEPT !.internal[comp.id] = Put(@, "phase", 0)] ELSE set
        held == clocked.outputs[comp.id]
    IN [clocked EXCEPT !.pin_values =
           [k \in DOMAIN @ \cup {<<comp.id, pin>> : pin \in DOMAIN held} |->
              IF k[1] = comp.id /\ k[2] \in DOMAIN held THEN held[k[2]] ELSE @[k]]]

RECURSIVE init_components(_, _, _)
init_components(e, comps, i) ==
    IF i = 0 THEN e ELSE init_component(init_components(e, comps, i - 1), comps[i])

load_circuit(circuit) ==
    LET ids == {circuit.components[i].id : i \in 1..Len(circuit.components)}
        e == [time |-> 0, events |-> {}, seq |-> 0,
              components |-> circuit.components, wires |-> circuit.wires,
              outputs |-> [id \in ids |-> <<>>], internal |-> [id \in ids |-> <<>>],
              pin_values |-> <<>>,
              connections |-> build_connections(circuit.wires, Len(circuit.wires))]
    IN init_components(e, circuit.components, Len(circuit.components))

schedule(e, delay, component_id, pin_id, value) ==
    [e EXCEPT !.events = @ \cup {SimulationEvent(e.time + delay, e.seq, component_id,
                                                 pin_id, value)},
              !.seq = @ + 1]

\* _get_input: the value at the first from-key whose wires reach the pin.
get_input(e, component_id, pin_id) ==
    LET at == {k \in 1..Len(e.connections) :
                  \E j \in 1..Len(e.connections[k].to) :
                     e.connections[k].to[j] = <<component_id, pin_id>>}
    IN IF at = {} THEN X ELSE Get(e.pin_values, e.connections[Min(at)].from, X)

\* _get_inputs: pin -> value pairs of the input pins, in pin order.
RECURSIVE get_inputs_upto(_, _, _)
get_inputs_upto(e, comp, i) ==
    IF i = 0 THEN <<>>
    ELSE IF comp.pins[i].type = "input"
    THEN Append(get_inputs_upto(e, comp, i - 1),
                <<comp.pins[i].id, get_input(e, comp.id, comp.pins[i].id)>>)
    ELSE get_inputs_upto(e, comp, i - 1)

get_inputs(e, component_id) ==
    LET comp == components_get(e, component_id) IN get_inputs_upto(e, comp, Len(comp.pins))

and(signals) ==
    IF \E i \in 1..Len(signals) : signals[i] = X THEN X
    ELSE IF \A i \in 1..Len(signals) : signals[i] = HIGH THEN HIGH
    ELSE LOW

not(signal) == IF signal = HIGH THEN LOW ELSE IF signal = LOW THEN HIGH ELSE X

xor(a, b) ==
    IF a = X \/ b = X THEN X
    ELSE IF (a = HIGH) # (b = HIGH) THEN HIGH
    ELSE LOW

\* inputs.get(pin, default) and list(inputs.values()).
inputs_get(inputs, pin, default) ==
    LET at == {i \in 1..Len(inputs) : inputs[i][1] = pin}
    IN IF at = {} THEN default ELSE inputs[Max(at)][2]

inputs_values(inputs) == [i \in 1..Len(inputs) |-> inputs[i][2]]

\* An edge detector that fires on every change of the clock input, the
\* falling ones included.
any_edge(prev_clk, clk) == prev_clk # clk

\* "if prev_clk == Signal.LOW and clk == Signal.HIGH:  # Rising edge".
rising_edge(prev_clk, clk) == prev_clk = LOW /\ clk = HIGH

\* The count a COUNTER_4BIT holds after an evaluation with these inputs.
counter_count(inputs, state) ==
    LET count == Get(state, "count", 0)
    IN IF rising_edge(Get(state, "prev_clk", LOW), inputs_get(inputs, "CLK", LOW))
       THEN (count + 1) % 16 ELSE count

\* The Q a D_FLIPFLOP holds after an evaluation with these inputs.
flipflop_q(inputs, state) ==
    IF rising_edge(Get(state, "prev_clk", LOW), inputs_get(inputs, "CLK", LOW))
    THEN inputs_get(inputs, "D", LOW) ELSE Get(state, "Q", LOW)

\* "Signal.HIGH if (count & bit) else Signal.LOW" for bit = 2^i.
count_bit(count, i) == IF (count \div (2 ^ i)) % 2 = 1 THEN HIGH ELSE LOW

\* What _compute_outputs writes to state.internal: the internal dictionary
\* of the component after the call.
compute_internal(comp, inputs, state) ==
    IF comp.type = "D_FLIPFLOP"
    THEN LET edge == rising_edge(Get(state, "prev_clk", LOW), inputs_get(inputs, "CLK", LOW))
             stored == IF edge THEN Put(state, "Q", flipflop_q(inputs, state)) ELSE state
         IN Put(stored, "prev_clk", inputs_get(inputs, "CLK", LOW))
    ELSE IF comp.type = "COUNTER_4BIT"
    THEN LET edge == rising_edge(Get(state, "prev_clk", LOW), inputs_get(inputs, "CLK", LOW))
             stored == IF edge THEN Put(state, "count", counter_count(inputs, state)) ELSE state
         IN Put(stored, "prev_clk", inputs_get(inputs, "CLK", LOW))
    ELSE state

\* _compute_outputs for the component types of the model: pin -> value pairs.
compute_outputs(comp, inputs, state) ==
    IF comp.type = "AND_2" THEN << <<"Y", and(inputs_values(inputs))>> >>
    ELSE IF comp.type = "NOT" THEN << <<"Y", not(inputs_get(inputs, "A", X))>> >>
    ELSE IF comp.type = "XOR_2"
    THEN << <<"Y", IF Len(inputs) = 2 THEN xor(inputs[1][2], inputs[2][2]) ELSE X>> >>
    ELSE IF comp.type = "D_FLIPFLOP"
    THEN << <<"Q", flipflop_q(inputs, state)>>, <<"Q'", not(flipflop_q(inputs, state))>> >>
    ELSE IF comp.type = "COUNTER_4BIT"
    THEN [i \in 1..4 |-> <<<<"Q0", "Q1", "Q2", "Q3">>[i],
                           count_bit(counter_count(inputs, state), i - 1)>>]
    ELSE <<>>

RECURSIVE schedule_changes(_, _, _, _)
schedule_changes(e, component_id, outs, i) ==
    IF i = 0 THEN e
    ELSE LET d == schedule_changes(e, component_id, outs, i - 1)
             current == Get(d.outputs[component_id], outs[i][1], X)
         IN IF outs[i][2] # current THEN schedule(d, 1, component_id, outs[i][1], outs[i][2])
            ELSE d

evaluate_component(e, component_id) ==
    LET comp == components_get(e, component_id)
        inputs == get_inputs(e, component_id)
        state == e.internal[component_id]
        outs == compute_outputs(comp, inputs, state)
        computed == [e EXCEPT !.internal[component_id] = compute_internal(comp, inputs, state)]
    IN IF comp = NoComponent THEN e
       ELSE schedule_changes(computed, component_id, outs, Len(outs))

\* The loop of step over the inputs a changed pin is wired to.
RECURSIVE propagate(_, _, _, _)
propagate(e, to_keys, i, value) ==
    IF i = 0 THEN e
    ELSE LET d == propagate(e, to_keys, i - 1, value)
         IN evaluate_component([d EXCEPT !.pin_values = Put(@, to_keys[i], value)],
                               to_keys[i][1])

\* step once heappop has returned the event.
step_event(e, event) ==
    LET popped == [e EXCEPT !.events = @ \ {event}, !.time = event.time]
        pin_key == <<event.component_id, event.pin_id>>
        to_keys == connections_get(e, pin_key)
    IN IF Get(e.pin_values, pin_key, X) = event.value THEN popped
       ELSE propagate([popped EXCEPT !.pin_values = Put(@, pin_key, event.value),
                                     !.outputs[event.component_id] =
                                        Put(@, event.pin_id, event.value)],
                      to_keys, Len(to_keys), event.value)

step(e) == IF e.events = {} THEN e ELSE step_event(e, heappop(e.events))

\* run: "while self.step() and steps < max_steps: steps += 1".  The result
\* holds the engine and the number of events step processed.
RECURSIVE run_loop(_, _, _)
run_loop(e, steps, max_steps) ==
    IF e.events = {} THEN [engine |-> e, processed |-> steps]
    ELSE IF steps < max_steps THEN run_loop(step(e), steps + 1, max_steps)
    ELSE [engine |-> step(e), processed |-> steps + 1]

DEFAULT_MAX_STEPS == 10000

run(e, max_steps) == run_loop(e, 0, max_steps)

set_input(e, component_id, value) ==
    IF components_get(e, component_id).type \in {"SWITCH_TOGGLE", "SWITCH_PUSH"}
    THEN schedule(e, 0, component_id, "OUT", IF value THEN HIGH ELSE LOW)
    ELSE e

toggle_switch(e, component_id) ==
    IF components_get(e, component_id).type # "SWITCH_TOGGLE" THEN e
    ELSE schedule(e, 0, component_id, "OUT",
                  IF Get(e.pin_values, <<component_id, "OUT">>, LOW) = HIGH THEN LOW ELSE HIGH)

tick_clock(e, component_id) ==
    IF components_get(e, component_id).type # "CLOCK" THEN e
    ELSE schedule([e EXCEPT !.internal[component_id] =
                              Put(@, "phase", (Get(@, "phase", 0) + 1) % 2)],
                  0, component_id, "CLK",
                  IF Get(e.pin_values, <<component_id, "CLK">>, LOW) = HIGH THEN LOW ELSE HIGH)

\* get_pin_states: the value of a pin, or "absent" when the result has no
\* entry for it.
get_pin_states(e, component_id, pin_id) == Get(e.pin_values, <<component_id, pin_id>>, "absent")

(***************************************************************************)
(* Simulation service: the validation of a circuit before it is simulated. *)
(***************************************************************************)
INPUT_DEVICES == {"SWITCH_TOGGLE", "SWITCH_PUSH", "CONST_HIGH", "CONST_LOW", "CLOCK",
                  "DIP_SWITCH_4", "NUMERIC_INPUT"}

SimulationError(error_type, component_id, pin_id) ==
    [error_type |-> error_type, component_id |-> component_id, pin_id |-> pin_id]

\* The FLOATING_INPUT errors of the first i pins of a component.
RECURSIVE floating_pins(_, _, _)
floating_pins(comp, wires, i) ==
    IF i = 0 THEN <<>>
    ELSE LET errors == floating_pins(comp, wires, i - 1)
             connected == \E k \in 1..Len(wires) :
                             /\ wires[k].to_component_id = comp.id
                             /\ wires[k].to_pin_id = comp.pins[i].id
         IN IF comp.pins[i].type = "input" /\ ~connected
            THEN Append(errors, SimulationError("FLOATING_INPUT", comp.id, comp.pins[i].id))
            ELSE errors

RECURSIVE floating_inputs(_, _)
floating_inputs(circuit, i) ==
    IF i = 0 THEN <<>>
    ELSE LET comp == circuit.components[i]
         IN floating_inputs(circuit, i - 1) \o
            (IF comp.type \in INPUT_DEVICES THEN <<>>
             ELSE floating_pins(comp, circuit.wires, Len(comp.pins)))

\* The OUTPUT_CONFLICT errors of the input pins that the first i wires reach,
\* in the order the pins are first reached.
RECURSIVE output_conflicts(_, _)
output_conflicts(wires, i) ==
    IF i = 0 THEN <<>>
    ELSE LET errors == output_conflicts(wires, i - 1)
             same == {k \in 1..Len(wires) :
                        /\ wires[k].to_component_id = wires[i].to_component_id
                        /\ wires[k].to_pin_id = wires[i].to_pin_id}
             unique_drivers == {wires[k].from_component_id : k \in same}
         IN IF i = Min(same) /\ Cardinality(unique_drivers) > 1
            THEN Append(errors, SimulationError("OUTPUT_CONFLICT", wires[i].to_component_id,
                                                wires[i].to_pin_id))
            ELSE errors

validate_circuit(circuit) ==
    floating_inputs(circuit, Len(circuit.components)) \o
    output_conflicts(circuit.wires, Len(circuit.wires))

(***************************************************************************)
(* Observations: the outcome of the most recent handler, and the command / *)
(* undo / redo sequence one user is in the middle of.                      *)
(***************************************************************************)
View(s) == [components |-> s.components, wires |-> s.wires, annotations |-> s.annotations]

NoLast == [op |-> "none", user |-> "none", conn |-> NoConnection, code |-> "none", ret |-> <<>>,
           state |-> create_empty, before |-> create_empty,
           bcast |-> <<>>, sent |-> <<>>, errTo |-> {}, quiet |-> FALSE]

\* A handler that was quiet changed no variable of the program: the runs that
\* continue after it are the runs that continue from the state before it,
\* which are explored from there and not a second time.
Continue == ~last.quiet

NoChain == [stage |-> 0, user |-> "none", before |-> View(create_empty),
            after |-> View(create_empty)]

Commands == {"circuit:component:add", "circuit:component:move", "circuit:component:delete",
             "circuit:wire:add", "circuit:wire:delete",
             "circuit:annotation:add", "circuit:annotation:delete"}

NextChain(p, op, r, before) ==
    IF op \in Commands /\ r.code = "OK"
    THEN [stage |-> 1, user |-> p, before |-> View(before), after |-> View(r.state)]
    ELSE IF op = "circuit:undo" /\ chain.stage = 1 /\ chain.user = p
    THEN [chain EXCEPT !.stage = 2]
    ELSE IF op = "circuit:redo" /\ chain.stage = 2 /\ chain.user = p
    THEN [chain EXCEPT !.stage = 3]
    ELSE NoChain

\* The messages a circuit handler broadcasts for the events the service returned.
Deltas(op, ret) ==
    [i \in 1..Len(ret) |->
        CASE op = "circuit:component:add" -> "circuit:component:added"
          [] op = "circuit:component:move" -> "circuit:component:moved"
          [] op = "circuit:component:delete" ->
                IF i < Len(ret) THEN "circuit:wire:deleted" ELSE "circuit:component:deleted"
          [] op = "circuit:wire:add" -> "circuit:wire:added"
          [] op = "circuit:wire:delete" -> "circuit:wire:deleted"
          [] op = "circuit:annotation:add" -> "circuit:annotation:added"
          [] op = "circuit:annotation:delete" -> "circuit:annotation:deleted"
          [] OTHER -> "circuit:state:updated"]

(***************************************************************************)
(* Gateway: _handle_message for the circuit:* messages.  res is the        *)
(* outcome of the service call the message type is routed to.              *)
(***************************************************************************)
handle_message(conn, op, res, limit) ==
    /\ conn \in online
    /\ Len(events) < limit
    /\ Continue
    /\ LET p == conn.participant_id
           perm == IF op \in {"circuit:undo", "circuit:redo"} THEN "OK"
                   ELSE check_edit_permission(participants, p)
           r == IF perm = "OK" THEN res ELSE Raised(Db, perm)
           before == get_circuit_state(snapshots, events)
           crashed == r.code = "DuplicateKeyError"
           deltas == Deltas(op, r.ret)
           msgs == IF r.code = "OK"
                   THEN [i \in 1..Len(deltas) |->
                           Message(deltas[i], broadcast_to_room(room_manager, {}))]
                   ELSE <<>>
       IN /\ events' = r.events
          /\ snapshots' = r.snapshots
          /\ undo_stacks' = r.undo
          /\ redo_stacks' = r.redo
          /\ last' = [op |-> op, user |-> p, conn |-> conn, code |-> r.code, ret |-> r.ret,
                      state |-> r.state, before |-> before,
                      bcast |-> msgs, sent |-> deliver(msgs, online),
                      errTo |-> IF r.code \in AppErrors
                                THEN send_to_participant(room_manager, p)
                                ELSE IF crashed THEN {conn} ELSE {},
                      quiet |-> /\ r.events = events /\ r.snapshots = snapshots
                                /\ r.undo = undo_stacks /\ r.redo = redo_stacks
                                /\ ~crashed]
          /\ chain' = NextChain(p, op, r, before)
          /\ online' = IF crashed THEN online \ {conn} ELSE online
          /\ room_manager' = IF crashed THEN disconnect(room_manager, p) ELSE room_manager
          /\ participants' = IF crashed THEN update_active_status(participants, p, FALSE)
                             ELSE participants
    /\ UNCHANGED <<edit_requests, calls,
                 simulations, engines, engine_calls>>

ComponentAdd(conn, component, limit) ==
    handle_message(conn, "circuit:component:add",
                   add_component(Db, conn.participant_id, component), limit)

ComponentMove(conn, component_id, position, limit) ==
    handle_message(conn, "circuit:component:move",
                   move_component(Db, conn.participant_id, component_id, position), limit)

ComponentDelete(conn, component_id, limit) ==
    handle_message(conn, "circuit:component:delete",
                   delete_component(Db, conn.participant_id, component_id), limit)

WireAdd(conn, wire, limit) ==
    handle_message(conn, "circuit:wire:add", add_wire(Db, conn.participant_id, wire), limit)

WireDelete(conn, wire_id, limit) ==
    handle_message(conn, "circuit:wire:delete",
                   delete_wire(Db, conn.participant_id, wire_id), limit)

AnnotationAdd(conn, annotation_id, limit) ==
    handle_message(conn, "circuit:annotation:add",
                   add_annotation(Db, conn.participant_id,
                                  AnnotationInput(conn.participant_id, annotation_id)), limit)

AnnotationDelete(conn, annotation_id, limit) ==
    handle_message(conn, "circuit:annotation:delete",
                   delete_annotation(Db, conn.participant_id, annotation_id), limit)

Undo(conn, limit) ==
    handle_message(conn, "circuit:undo", undo(Db, conn.participant_id), limit)

Redo(conn, limit) ==
    handle_message(conn, "circuit:redo", redo(Db, conn.participant_id), limit)

(***************************************************************************)
(* Gateway: connection lifecycle and the permission:* messages.  msgs are  *)
(* the messages the handler sends when the service call succeeds.          *)
(***************************************************************************)
\* The socket a participant opens next: the lowest-numbered one that no
\* receive loop and no room entry refers to.
FreeSockets(p, max) ==
    {w \in 1..max : ConnectionInfo(w, p) \notin online \cup room_manager.rooms}

\* handle_connection up to its receive loop, for a socket opened with the
\* participant id p.
Connect(p, max) ==
    /\ FreeSockets(p, max) # {}
    /\ Continue
    /\ LET conn == ConnectionInfo(Min(FreeSockets(p, max)), p)
       IN IF participants[p] = NoParticipant
          THEN /\ last' = [NoLast EXCEPT !.op = "connect", !.user = p, !.conn = conn,
                                         !.code = "4001", !.quiet = TRUE]
               /\ UNCHANGED <<room_manager, online, participants>>
          ELSE /\ room_manager' = connect(room_manager, conn)
               /\ online' = online \cup {conn}
               /\ participants' = update_active_status(participants, p, TRUE)
               /\ last' = [NoLast EXCEPT
                             !.op = "connect", !.user = p, !.conn = conn, !.code = "OK",
                             !.bcast = << Message("sync:state", {conn}),
                                          Message("presence:participant:joined",
                                                  broadcast_to_room(connect(room_manager, conn),
                                                                    {p})) >>]
    /\ chain' = NoChain
    /\ UNCHANGED <<events, snapshots, undo_stacks, redo_stacks, edit_requests, calls,
                 simulations, engines, engine_calls>>

\* The end of handle_connection: what its finally block does, and the
\* messages it sends.
finally(conn, op, code, errTo) ==
    /\ room_manager' = disconnect(room_manager, conn.participant_id)
    /\ online' = online \ {conn}
    /\ participants' = update_active_status(participants, conn.participant_id, FALSE)
    /\ last' = [NoLast EXCEPT
                  !.op = op, !.user = conn.participant_id, !.conn = conn,
                  !.code = code, !.errTo = errTo,
                  !.bcast = << Message("presence:participant:left",
                                       broadcast_to_room(
                                          disconnect(room_manager, conn.participant_id), {})) >>]
    /\ chain' = NoChain
    /\ UNCHANGED <<events, snapshots, undo_stacks, redo_stacks, edit_requests, calls,
                 simulations, engines, engine_calls>>

\* The client closes the socket: WebSocketDisconnect and the finally block.
Disconnect(conn) ==
    /\ conn \in online
    /\ Continue
    /\ finally(conn, "disconnect", "OK", {})

\* A message that is not JSON, or a payload without the key its handler
\* reads (payload["participantId"], payload["component"], ...): the
\* exception is none of those _handle_message catches and ends the loop.
Malformed(conn) ==
    /\ conn \in online
    /\ Continue
    /\ finally(conn, "malformed", "INTERNAL_ERROR", {conn})

\* _handle_message for a permission:* message: r is the outcome of the
\* service call, rm the room manager after it.
handle_permission(conn, op, r, rm, msgs) ==
    /\ conn \in online
    /\ Continue
    /\ participants' = r.participants
    /\ edit_requests' = r.edit_requests
    /\ room_manager' = rm
    /\ last' = [NoLast EXCEPT
                  !.op = op, !.user = conn.participant_id, !.conn = conn, !.code = r.code,
                  !.bcast = IF r.code = "OK" THEN msgs ELSE <<>>,
                  !.errTo = IF r.code \in AppErrors
                            THEN send_to_participant(room_manager, conn.participant_id)
                            ELSE {},
                  !.quiet = /\ r.participants = participants
                            /\ r.edit_requests = edit_requests
                            /\ rm = room_manager]
    /\ chain' = NoChain
    /\ UNCHANGED <<events, snapshots, undo_stacks, redo_stacks, online, calls,
                 simulations, engines, engine_calls>>

EditRequest(conn) ==
    handle_permission(conn, "permission:request:edit",
        request_edit_access(participants, edit_requests, conn.participant_id), room_manager,
        << Message("permission:request:sent",
                   send_to_participant(room_manager, conn.participant_id)),
           Message("permission:request:received",
                   send_to_participant(room_manager, Teacher)) >>)

PermissionApprove(conn, student_id) ==
    handle_permission(conn, "permission:approve",
        approve_edit_request(participants, edit_requests, conn.participant_id, student_id),
        room_manager,
        << Message("permission:granted", broadcast_to_room(room_manager, {})) >>)

PermissionDeny(conn, student_id) ==
    handle_permission(conn, "permission:deny",
        deny_edit_request(participants, edit_requests, conn.participant_id, student_id),
        room_manager,
        << Message("permission:denied", broadcast_to_room(room_manager, {})) >>)

PermissionRevoke(conn, student_id) ==
    handle_permission(conn, "permission:revoke",
        revoke_edit_permission(participants, edit_requests, conn.participant_id, student_id),
        room_manager,
        << Message("permission:revoked", broadcast_to_room(room_manager, {})) >>)

\* The checks of _handle_kick_participant, then what a kick does to the
\* participants.
kick_participant(parts, reqs, teacher_id, student_id) ==
    IF parts[teacher_id] = NoParticipant \/ parts[teacher_id].role # "teacher"
    THEN Permission(parts, reqs, "FORBIDDEN")
    ELSE IF parts[student_id] = NoParticipant THEN Permission(parts, reqs, "NOT_FOUND")
    ELSE IF parts[student_id].role = "teacher" THEN Permission(parts, reqs, "FORBIDDEN")
    ELSE Permission(delete_participant(parts, student_id), reqs, "OK")

\* The kicked participant is taken out of the room manager; the receive
\* loop of their connection is not stopped.
KickParticipant(conn, student_id) ==
    LET r == kick_participant(participants, edit_requests, conn.participant_id, student_id)
        rm == IF r.code = "OK" THEN disconnect(room_manager, student_id) ELSE room_manager
    IN handle_permission(conn, "permission:kick", r, rm,
        << Message("session:kicked", send_to_participant(room_manager, student_id)),
           Message("presence:participant:kicked", broadcast_to_room(rm, {})) >>)

\* _handle_simulation_start: the sender needs edit permission; the engine is
\* loaded with the current circuit, run, stored for the session, and the
\* start is broadcast.
SimulationStart(conn) ==
    /\ conn \in online
    /\ Continue
    /\ LET participant == participants[conn.participant_id]
           allowed == participant # NoParticipant /\ participant.can_edit
           circuit == get_circuit_state(snapshots, events)
           engine == run(load_circuit(circuit), DEFAULT_MAX_STEPS).engine
       IN /\ simulations' = IF allowed THEN <<engine>> ELSE simulations
          /\ last' = [NoLast EXCEPT
                        !.op = "simulation:start", !.user = conn.participant_id,
                        !.conn = conn, !.code = IF allowed THEN "OK" ELSE "FORBIDDEN",
                        !.state = circuit,
                        !.bcast = IF allowed
                                  THEN << Message("simulation:started",
                                                  broadcast_to_room(room_manager, {})) >>
                                  ELSE <<>>,
                        !.errTo = IF allowed THEN {}
                                  ELSE send_to_participant(room_manager, conn.participant_id),
                        !.quiet = ~allowed \/ simulations = <<engine>>]
    /\ chain' = NoChain
    /\ UNCHANGED <<events, snapshots, undo_stacks, redo_stacks, participants, edit_requests,
                   room_manager, online, calls, engines, engine_calls>>

(***************************************************************************)
(* Sequential specification: the teacher and a student who was granted     *)
(* edit permission are connected and send circuit messages, each handled   *)
(* to completion before the next.                                          *)
(***************************************************************************)
NoCall == [pc |-> "idle"]

InitSession ==
    /\ events = <<>>
    /\ snapshots = {[version |-> 0, state |-> StateDump(create_empty)]}
    /\ undo_stacks = [u \in Users |-> <<>>]
    /\ redo_stacks = [u \in Users |-> <<>>]
    /\ calls = [conn \in Connections |-> NoCall]
    /\ simulations = <<>>
    /\ engines = <<SimulationEngine, SimulationEngine>>
    /\ engine_calls = <<>>
    /\ last = NoLast
    /\ chain = NoChain

Init ==
    /\ InitSession
    /\ participants = [u \in Users |->
                         IF u = Teacher THEN join_session(u, u)
                         ELSE [join_session(u, Teacher) EXCEPT !.can_edit = (u = "s1")]]
    /\ edit_requests = [u \in Users |-> IF u = "s1" THEN "approved" ELSE NoRequest]
    /\ room_manager = Registered({Teacher, "s1"})
    /\ online = Registered({Teacher, "s1"}).rooms

Messages(limit) ==
    \/ \E conn \in online, c \in ComponentInputs : ComponentAdd(conn, c, limit)
    \/ \E conn \in online, id \in ComponentIds, pos \in Positions :
          ComponentMove(conn, id, pos, limit)
    \/ \E conn \in online, id \in ComponentIds : ComponentDelete(conn, id, limit)
    \/ \E conn \in online, w \in WireInputs : WireAdd(conn, w, limit)
    \/ \E conn \in online, id \in WireIds : WireDelete(conn, id, limit)
    \/ \E conn \in online, id \in AnnotationIds : AnnotationAdd(conn, id, limit)
    \/ \E conn \in online, id \in AnnotationIds : AnnotationDelete(conn, id, limit)
    \/ \E conn \in online : Undo(conn, limit)
    \/ \E conn \in online : Redo(conn, limit)

Next == Messages(MaxEvents)

Spec == Init /\ [][Next]_vars

\* The same program run one event further.
NextDeep == Messages(MaxDeepEvents)

SpecDeep == Init /\ [][NextDeep]_vars

(***************************************************************************)
(* Gateway specification: the session has just been created, the teacher   *)
(* and one student have joined; participants connect, disconnect and send  *)
(* circuit and permission messages, each handled to completion before the  *)
(* next.                                                                   *)
(***************************************************************************)
\* The participants who have joined the session.
Joined == {Teacher, "s1"}

InitGateway ==
    /\ InitSession
    /\ participants = [u \in Users |-> IF u \in Joined THEN join_session(u, Teacher)
                                       ELSE NoParticipant]
    /\ edit_requests = [u \in Users |-> NoRequest]
    /\ room_manager = RoomManager
    /\ online = {}

NextGateway ==
    \/ \E p \in Users : Connect(p, MaxSockets)
    \/ \E conn \in online : Disconnect(conn)
    \/ \E conn \in online : Malformed(conn)
    \/ Messages(MaxGatewayEvents)
    \/ \E conn \in online : EditRequest(conn)
    \/ \E conn \in online, id \in Users : PermissionApprove(conn, id)
    \/ \E conn \in online, id \in Users : PermissionDeny(conn, id)
    \/ \E conn \in online, id \in Users : PermissionRevoke(conn, id)
    \/ \E conn \in online, id \in Users : KickParticipant(conn, id)
    \/ \E conn \in online : SimulationStart(conn)

SpecGateway == InitGateway /\ [][NextGateway]_vars

\* The room of a session whose participants open up to MaxRoomSockets
\* sockets each: connects, closes, failures and kicks in any order.
NextRoom ==
    \/ \E p \in Users : Connect(p, MaxRoomSockets)
    \/ \E conn \in online : Disconnect(conn)
    \/ \E conn \in online : Malformed(conn)
    \/ \E conn \in online, id \in Users : KickParticipant(conn, id)

SpecRoom == InitGateway /\ [][NextRoom]_vars

\* Circuit messages in a room whose participants open and close up to
\* MaxRoomSockets sockets each: the room can hold closed connections.
NextBroadcast ==
    \/ \E p \in Users : Connect(p, MaxRoomSockets)
    \/ \E conn \in online : Disconnect(conn)
    \/ Messages(MaxBroadcastEvents)

SpecBroadcast == InitGateway /\ [][NextBroadcast]_vars

(***************************************************************************)
(* Snapshot specification: the teacher has sent SNAPSHOT_INTERVAL - 1      *)
(* commands (two components, a wire between them, then moves), so that the *)
(* next event gets the version at which add_component takes a snapshot.    *)
(***************************************************************************)
history_command(db, i) ==
    IF i = 1 THEN add_component(db, Teacher, [id |-> "c1", type |-> "SWITCH_TOGGLE",
                                              position |-> P0, pins |-> SwitchPins])
    ELSE IF i = 2 THEN add_component(db, Teacher, [id |-> "c2", type |-> "NOT",
                                                   position |-> P0, pins |-> NotPins])
    ELSE IF i = 3 THEN add_wire(db, Teacher,
                                [id |-> "w1", from_component_id |-> "c1", from_pin_id |-> "OUT",
                                 to_component_id |-> "c2", to_pin_id |-> "A"])
    ELSE move_component(db, Teacher, "c1", IF i % 2 = 0 THEN P1 ELSE P0)

\* The stored data after commands lo..hi of that history, each sent when the
\* one before it has been handled.
RECURSIVE History(_, _, _)
History(db, lo, hi) ==
    IF lo > hi THEN db
    ELSE IF lo = hi THEN history_command(db, lo)
    ELSE LET mid == (lo + hi) \div 2
             handled == History(db, lo, mid)
         IN IF Len(handled.events) = mid THEN History(handled, mid + 1, hi) ELSE handled

InitSnap ==
    LET h == History([events |-> <<>>,
                      snapshots |-> {[version |-> 0, state |-> StateDump(create_empty)]},
                      undo |-> [u \in Users |-> <<>>], redo |-> [u \in Users |-> <<>>]],
                     1, SNAPSHOT_INTERVAL - 1)
    IN /\ events = h.events
       /\ snapshots = h.snapshots
       /\ undo_stacks = h.undo
       /\ redo_stacks = h.redo
       /\ calls = [conn \in Connections |-> NoCall]
       /\ simulations = <<>>
       /\ engines = <<SimulationEngine, SimulationEngine>>
       /\ engine_calls = <<>>
       /\ last = NoLast
       /\ chain = NoChain
       /\ participants = [u \in Users |-> join_session(u, Teacher)]
       /\ edit_requests = [u \in Users |-> NoRequest]
       /\ room_manager = Registered({Teacher})
       /\ online = Registered({Teacher}).rooms

NextSnap == Messages(SNAPSHOT_INTERVAL + SnapExtra)

SpecSnap == InitSnap /\ [][NextSnap]_vars

(***************************************************************************)
(* Interleaved specification: the calls of the teacher and of the student  *)
(* run concurrently.  A call is suspended at its awaits: after the message *)
(* is accepted, after the state is read and validated, after the head      *)
(* version is read, and after the event is inserted.  calls[u] holds the   *)
(* position of the call of u, the message, and what the call has read.     *)
(***************************************************************************)
ConcComponent == [id |-> "c2", type |-> "NOT", position |-> P0, pins |-> NotPins]

ConcWire == [id |-> "w1", from_component_id |-> "c2", from_pin_id |-> "Y",
             to_component_id |-> "c2", to_pin_id |-> "A"]

\* The messages a participant may send: type and payload.
ConcMessages(u) ==
    { <<"circuit:component:add", ConcComponent>>,
      <<"circuit:component:move", [component_id |-> "c2", position |-> P1]>>,
      <<"circuit:component:delete", "c2">>,
      <<"circuit:wire:add", ConcWire>>,
      <<"circuit:wire:delete", "w1">>,
      <<"circuit:annotation:add", AnnotationInput(u, "a1")>>,
      <<"circuit:annotation:delete", "a1">>,
      <<"circuit:undo", "none">>,
      <<"circuit:redo", "none">> }

Returned(conn, op, code) ==
    [NoLast EXCEPT !.op = op, !.user = conn.participant_id, !.conn = conn, !.code = code]

\* The message is received and its permission checked; undo and redo pop
\* their stack before the first await.
CallBegin(conn, op, arg, limit) ==
    /\ conn \in online
    /\ calls[conn].pc = "idle"
    /\ Len(events) < limit
    /\ Continue
    /\ LET u == conn.participant_id
           perm == IF op \in {"circuit:undo", "circuit:redo"} THEN "OK"
                   ELSE check_edit_permission(participants, u)
           stack == IF op = "circuit:undo" THEN undo_stacks[u] ELSE redo_stacks[u]
           call == [pc |-> "version", conn |-> conn, op |-> op, arg |-> arg, wires |-> <<>>,
                    ret |-> <<>>, event |-> NoEvent]
       IN IF perm # "OK"
          THEN /\ last' = [Returned(conn, op, perm) EXCEPT
                              !.errTo = send_to_participant(room_manager, u), !.quiet = TRUE]
               /\ UNCHANGED <<calls, undo_stacks, redo_stacks>>
          ELSE IF op \in {"circuit:undo", "circuit:redo"}
          THEN IF stack = <<>>
               THEN /\ last' = [Returned(conn, op, "NONE") EXCEPT !.quiet = TRUE]
                    /\ UNCHANGED <<calls, undo_stacks, redo_stacks>>
               ELSE /\ calls' = [calls EXCEPT ![conn] = [call EXCEPT !.arg = stack[Len(stack)]]]
                    /\ undo_stacks' = IF op = "circuit:undo"
                                      THEN [undo_stacks EXCEPT ![u] = SubSeq(stack, 1, Len(stack) - 1)]
                                      ELSE undo_stacks
                    /\ redo_stacks' = IF op = "circuit:redo"
                                      THEN [redo_stacks EXCEPT ![u] = SubSeq(stack, 1, Len(stack) - 1)]
                                      ELSE redo_stacks
                    /\ UNCHANGED last
          ELSE /\ calls' = [calls EXCEPT ![conn] =
                              IF op \in {"circuit:component:add", "circuit:annotation:add"}
                              THEN call ELSE [call EXCEPT !.pc = "validate"]]
               /\ UNCHANGED <<last, undo_stacks, redo_stacks>>
    /\ UNCHANGED <<events, snapshots, participants, edit_requests, room_manager, online, chain,
                   simulations, engines, engine_calls>>

\* The check a command makes on the state it has read.
validate(op, arg, state) ==
    CASE op = "circuit:component:move" ->
            IF \E i \in 1..Len(state.components) : state.components[i].id = arg.component_id
            THEN "OK" ELSE "NOT_FOUND"
      [] op = "circuit:component:delete" ->
            IF \E i \in 1..Len(state.components) : state.components[i].id = arg
            THEN "OK" ELSE "NOT_FOUND"
      [] op = "circuit:wire:add" -> validate_wire_connection(state, arg)
      [] op = "circuit:wire:delete" ->
            IF \E i \in 1..Len(state.wires) : state.wires[i].id = arg THEN "OK" ELSE "NOT_FOUND"
      [] op = "circuit:annotation:delete" ->
            IF \E i \in 1..Len(state.annotations) : state.annotations[i].id = arg
            THEN "OK" ELSE "NOT_FOUND"

\* The call reads the state and validates the command against it.
CallValidate(conn) ==
    /\ calls[conn].pc = "validate"
    /\ LET u == conn.participant_id
           c == calls[conn]
           state == get_circuit_state(snapshots, events)
           code == validate(c.op, c.arg, state)
       IN IF code # "OK"
          THEN /\ calls' = [calls EXCEPT ![conn] = NoCall]
               /\ last' = [Returned(c.conn, c.op, code) EXCEPT
                              !.errTo = send_to_participant(room_manager, u)]
          ELSE /\ calls' = [calls EXCEPT ![conn] =
                              [c EXCEPT !.pc = "version",
                                        !.wires = IF c.op = "circuit:component:delete"
                                                  THEN connected_wires(state, c.arg)
                                                  ELSE <<>>]]
               /\ UNCHANGED last
    /\ UNCHANGED <<events, snapshots, undo_stacks, redo_stacks, participants, edit_requests,
                   room_manager, online, chain,
                   simulations, engines, engine_calls>>

\* The event a call builds once it has read the head version.
call_event(c, u, evs) ==
    LET version == get_next_version(evs)
    IN CASE c.op = "circuit:component:add" ->
              Event("COMPONENT_ADDED", version, u, [component |-> c.arg])
         [] c.op = "circuit:component:move" ->
              Event("COMPONENT_MOVED", version, u,
                    [component_id |-> c.arg.component_id, position |-> c.arg.position])
         [] c.op = "circuit:component:delete" ->
              IF c.wires # <<>>
              THEN Event("WIRE_DELETED", version, u, [wire_id |-> c.wires[1].id])
              ELSE Event("COMPONENT_DELETED", version, u, [component_id |-> c.arg])
         [] c.op = "circuit:wire:add" -> Event("WIRE_ADDED", version, u, [wire |-> c.arg])
         [] c.op = "circuit:wire:delete" -> Event("WIRE_DELETED", version, u, [wire_id |-> c.arg])
         [] c.op = "circuit:annotation:add" ->
              Event("ANNOTATION_ADDED", version, u, [annotation |-> c.arg])
         [] c.op = "circuit:annotation:delete" ->
              Event("ANNOTATION_DELETED", version, u, [annotation_id |-> c.arg])
         [] c.op = "circuit:undo" -> create_inverse_event(evs, u, c.arg)
         [] c.op = "circuit:redo" -> recreate_event_with_version(c.arg, version)

\* The call reads the head version and builds its event with the next one.
CallVersion(conn) ==
    /\ calls[conn].pc = "version"
    /\ LET u == conn.participant_id
           c == calls[conn]
           event == call_event(c, u, events)
       IN IF event = NoEvent
          THEN /\ calls' = [calls EXCEPT ![conn] = NoCall]
               /\ last' = Returned(c.conn, c.op, "NONE")
          ELSE /\ calls' = [calls EXCEPT ![conn] = [c EXCEPT !.pc = "append", !.event = event]]
               /\ UNCHANGED last
    /\ UNCHANGED <<events, snapshots, undo_stacks, redo_stacks, participants, edit_requests,
                   room_manager, online, chain,
                   simulations, engines, engine_calls>>

\* The call inserts its event.  A rejected insert raises an error that is no
\* application error: it ends the connection.  An accepted one is followed,
\* before the next await, by the updates of the caller's stacks.
CallAppend(conn) ==
    /\ calls[conn].pc = "append"
    /\ LET u == conn.participant_id
           c == calls[conn]
           ret == Append(c.ret, c.event)
           cascade == c.op = "circuit:component:delete" /\ c.wires # <<>>
       IN IF ~create_indexes(events, EventDump(c.event))
          THEN /\ calls' = [calls EXCEPT ![conn] = NoCall]
               /\ last' = [Returned(c.conn, c.op, "DuplicateKeyError") EXCEPT !.errTo = {c.conn}]
               /\ online' = online \ {c.conn}
               /\ room_manager' = disconnect(room_manager, u)
               /\ participants' = update_active_status(participants, u, FALSE)
               /\ UNCHANGED <<events, undo_stacks, redo_stacks>>
          ELSE /\ events' = append_event(events, c.event)
               /\ calls' = [calls EXCEPT ![conn] =
                              IF cascade
                              THEN [c EXCEPT !.pc = "version", !.wires = Tail(c.wires),
                                             !.ret = ret]
                              ELSE [c EXCEPT !.pc = "finish", !.ret = ret]]
               /\ undo_stacks' =
                     IF cascade \/ c.op = "circuit:undo" THEN undo_stacks
                     ELSE IF c.op = "circuit:redo"
                     THEN [undo_stacks EXCEPT ![u] = Append(@, c.event)]
                     ELSE push_all(undo_stacks, u, ret, 1)
               /\ redo_stacks' =
                     IF cascade \/ c.op = "circuit:redo" THEN redo_stacks
                     ELSE IF c.op = "circuit:undo"
                     THEN [redo_stacks EXCEPT ![u] = Append(@, c.arg)]
                     ELSE clear_redo(redo_stacks, u)
               /\ UNCHANGED <<last, online, room_manager, participants>>
    /\ UNCHANGED <<snapshots, edit_requests, chain, simulations, engines,
                   engine_calls>>

\* The call takes its snapshot if one is due, reads the state it returns, and
\* the handler broadcasts the deltas.
CallFinish(conn) ==
    /\ calls[conn].pc = "finish"
    /\ LET u == conn.participant_id
           c == calls[conn]
           snaps == IF c.op = "circuit:component:add"
                    THEN maybe_create_snapshot(snapshots, events, c.event.version)
                    ELSE snapshots
           deltas == Deltas(c.op, c.ret)
           msgs == [i \in 1..Len(deltas) |->
                      Message(deltas[i], broadcast_to_room(room_manager, {}))]
       IN /\ snapshots' = snaps
          /\ calls' = [calls EXCEPT ![conn] = NoCall]
          /\ last' = [Returned(c.conn, c.op, "OK") EXCEPT
                         !.ret = c.ret,
                         !.state = get_circuit_state(snaps, events),
                         !.bcast = msgs, !.sent = deliver(msgs, online)]
    /\ UNCHANGED <<events, undo_stacks, redo_stacks, participants, edit_requests,
                   room_manager, online, chain,
                   simulations, engines, engine_calls>>

NextConc ==
    \/ \E conn \in online : \E m \in ConcMessages(conn.participant_id) :
          CallBegin(conn, m[1], m[2], MaxConcEvents)
    \/ \E conn \in Connections : CallValidate(conn)
    \/ \E conn \in Connections : CallVersion(conn)
    \/ \E conn \in Connections : CallAppend(conn)
    \/ \E conn \in Connections : CallFinish(conn)

SpecConc == Init /\ [][NextConc]_vars

\* The interleaved calls of a teacher who has the session open on two
\* connections and whose undo stack holds UNDO_LIMIT events.
StackMessages ==
    { <<"circuit:component:move", [component_id |-> "c2", position |-> P1]>>,
      <<"circuit:component:delete", "c2">>,
      <<"circuit:undo", "none">>,
      <<"circuit:redo", "none">> }

TwoSockets(p) == connect(connect(RoomManager, ConnectionInfo(1, p)), ConnectionInfo(2, p))

InitStack ==
    LET h == History([events |-> <<>>,
                      snapshots |-> {[version |-> 0, state |-> StateDump(create_empty)]},
                      undo |-> [u \in Users |-> <<>>], redo |-> [u \in Users |-> <<>>]],
                     1, UNDO_LIMIT)
    IN /\ events = h.events
       /\ snapshots = h.snapshots
       /\ undo_stacks = h.undo
       /\ redo_stacks = h.redo
       /\ calls = [conn \in Connections |-> NoCall]
       /\ simulations = <<>>
       /\ engines = <<SimulationEngine, SimulationEngine>>
       /\ engine_calls = <<>>
       /\ last = NoLast
       /\ chain = NoChain
       /\ participants = [u \in Users |-> join_session(u, Teacher)]
       /\ edit_requests = [u \in Users |-> NoRequest]
       /\ room_manager = TwoSockets(Teacher)
       /\ online = TwoSockets(Teacher).rooms

NextStack ==
    \/ \E conn \in online : \E m \in StackMessages :
          CallBegin(conn, m[1], m[2], UNDO_LIMIT + StackExtra)
    \/ \E conn \in Connections : CallValidate(conn)
    \/ \E conn \in Connections : CallVersion(conn)
    \/ \E conn \in Connections : CallAppend(conn)
    \/ \E conn \in Connections : CallFinish(conn)

SpecStack == InitStack /\ [][NextStack]_vars

\* The interleaved calls of a teacher who has the session open on two
\* connections when the log holds SNAPSHOT_INTERVAL - 1 events: the next
\* add_component takes a snapshot while the other connection appends.
SnapshotMessages ==
    { <<"circuit:component:add", ConcComponent>>,
      <<"circuit:component:move", [component_id |-> "c1", position |-> P1]>>,
      <<"circuit:wire:delete", "w1">> }

InitSnapshotRace ==
    LET h == History([events |-> <<>>,
                      snapshots |-> {[version |-> 0, state |-> StateDump(create_empty)]},
                      undo |-> [u \in Users |-> <<>>], redo |-> [u \in Users |-> <<>>]],
                     1, SNAPSHOT_INTERVAL - 1)
    IN /\ events = h.events
       /\ snapshots = h.snapshots
       /\ undo_stacks = h.undo
       /\ redo_stacks = h.redo
       /\ calls = [conn \in Connections |-> NoCall]
       /\ simulations = <<>>
       /\ engines = <<SimulationEngine, SimulationEngine>>
       /\ engine_calls = <<>>
       /\ last = NoLast
       /\ chain = NoChain
       /\ participants = [u \in Users |-> join_session(u, Teacher)]
       /\ edit_requests = [u \in Users |-> NoRequest]
       /\ room_manager = TwoSockets(Teacher)
       /\ online = TwoSockets(Teacher).rooms

NextSnapshotRace ==
    \/ \E conn \in online : \E m \in SnapshotMessages :
          CallBegin(conn, m[1], m[2], SNAPSHOT_INTERVAL + SnapExtra)
    \/ \E conn \in Connections : CallValidate(conn)
    \/ \E conn \in Connections : CallVersion(conn)
    \/ \E conn \in Connections : CallAppend(conn)
    \/ \E conn \in Connections : CallFinish(conn)

SpecSnapshotRace == InitSnapshotRace /\ [][NextSnapshotRace]_vars

(***************************************************************************)
(* Join specification: the circuit holds two components and a wire, the    *)
(* teacher and a student with edit permission send commands concurrently,  *)
(* and a second student joins.  handle_connection is suspended between     *)
(* room_manager.connect and the read of the state it sends as sync:state.  *)
(***************************************************************************)
JoinMessages ==
    { <<"circuit:component:delete", "c2">>,
      <<"circuit:component:move", [component_id |-> "c1", position |-> P1]>>,
      <<"circuit:undo", "none">> }

InitJoin ==
    LET h == History([events |-> <<>>,
                      snapshots |-> {[version |-> 0, state |-> StateDump(create_empty)]},
                      undo |-> [u \in Users |-> <<>>], redo |-> [u \in Users |-> <<>>]],
                     1, 3)
    IN /\ events = h.events
       /\ snapshots = h.snapshots
       /\ undo_stacks = h.undo
       /\ redo_stacks = h.redo
       /\ calls = [conn \in Connections |-> NoCall]
       /\ simulations = <<>>
       /\ engines = <<SimulationEngine, SimulationEngine>>
       /\ engine_calls = <<>>
       /\ last = NoLast
       /\ chain = NoChain
       /\ participants = [u \in Users |->
                            IF u = Teacher THEN join_session(u, u)
                            ELSE [join_session(u, Teacher) EXCEPT !.can_edit = (u = "s1")]]
       /\ edit_requests = [u \in Users |-> IF u = "s1" THEN "approved" ELSE NoRequest]
       /\ room_manager = Registered({Teacher, "s1"})
       /\ online = Registered({Teacher, "s1"}).rooms

\* handle_connection up to the await of _send_sync_state: the connection
\* is in the room and the participant is marked active.
JoinConnect(p) ==
    /\ FreeSockets(p, MaxSockets) # {}
    /\ participants[p] # NoParticipant
    /\ LET conn == ConnectionInfo(Min(FreeSockets(p, MaxSockets)), p)
       IN /\ room_manager' = connect(room_manager, conn)
          /\ online' = online \cup {conn}
          /\ participants' = update_active_status(participants, p, TRUE)
          /\ calls' = [calls EXCEPT ![conn] = [pc |-> "sync"]]
          /\ last' = [NoLast EXCEPT !.op = "connect", !.user = p, !.conn = conn, !.code = "OK"]
    /\ UNCHANGED <<events, snapshots, undo_stacks, redo_stacks, edit_requests, chain,
                   simulations, engines, engine_calls>>

\* _send_sync_state reads the circuit and sends it to the new connection;
\* the others are told of the participant.
JoinSync(conn) ==
    /\ calls[conn].pc = "sync"
    /\ calls' = [calls EXCEPT ![conn] = NoCall]
    /\ LET msgs == << Message("sync:state", {conn}),
                      Message("presence:participant:joined",
                              broadcast_to_room(room_manager, {conn.participant_id})) >>
       IN last' = [NoLast EXCEPT
                     !.op = "sync:state", !.user = conn.participant_id, !.conn = conn,
                     !.code = "OK", !.state = get_circuit_state(snapshots, events),
                     !.bcast = msgs, !.sent = deliver(msgs, online)]
    /\ UNCHANGED <<events, snapshots, undo_stacks, redo_stacks, participants, edit_requests,
                   room_manager, online, chain, simulations, engines, engine_calls>>

NextJoin ==
    \/ JoinConnect("s2")
    \/ \E conn \in Connections : JoinSync(conn)
    \/ \E conn \in online : \E m \in JoinMessages :
          CallBegin(conn, m[1], m[2], 3 + MaxJoinEvents)
    \/ \E conn \in Connections : CallValidate(conn)
    \/ \E conn \in Connections : CallVersion(conn)
    \/ \E conn \in Connections : CallAppend(conn)
    \/ \E conn \in Connections : CallFinish(conn)

SpecJoin == InitJoin /\ [][NextJoin]_vars

(***************************************************************************)
(* Serialization specification: a CircuitState is built, dumped with       *)
(* model_dump(mode="json", by_alias=True) and validated back.  Floats are  *)
(* written as strings; "nan" and "inf" are the values a float field        *)
(* accepts beyond the finite ones.  updatedAt is left out.                 *)
(***************************************************************************)
Floats == {"0.0", "1.5", "inf", "nan"}

\* Python's == on floats: nan equals nothing, itself included.
float_eq(a, b) == a = b /\ a # "nan"

\* The float serializer in JSON mode: with ser_json_inf_nan = "null" a value
\* that is not finite becomes null, with "constants" it is kept.
dump_float(x, inf_nan) == IF x \in {"inf", "nan"} /\ inf_nan = "null" THEN "null" ELSE x

PositionDump(p, inf_nan) == [x |-> dump_float(p.x, inf_nan), y |-> dump_float(p.y, inf_nan)]

PositionsDump(ps, inf_nan) == [i \in 1..Len(ps) |-> PositionDump(ps[i], inf_nan)]

\* The float validator rejects null.
PositionValid(d) == d.x # "null" /\ d.y # "null"

PinDump(pin, inf_nan) ==
    [id |-> pin.id, name |-> pin.name, type |-> pin.type,
     position |-> PositionDump(pin.position, inf_nan)]

CircuitComponentDump(c, inf_nan) ==
    [id |-> c.id, type |-> c.type, position |-> PositionDump(c.position, inf_nan),
     rotation |-> c.rotation, properties |-> c.properties,
     pins |-> [i \in 1..Len(c.pins) |-> PinDump(c.pins[i], inf_nan)]]

WireJsonDump(w, inf_nan) ==
    [id |-> w.id, fromComponentId |-> w.from_component_id, fromPinId |-> w.from_pin_id,
     toComponentId |-> w.to_component_id, toPinId |-> w.to_pin_id,
     waypoints |-> PositionsDump(w.waypoints, inf_nan)]

WireJsonValidate(d) ==
    [id |-> d.id, from_component_id |-> d.fromComponentId, from_pin_id |-> d.fromPinId,
     to_component_id |-> d.toComponentId, to_pin_id |-> d.toPinId,
     waypoints |-> d.waypoints]

\* data is StrokeData | TextData: the dump is that of the member the value
\* is, the validation takes the member whose fields the document has.
DataDump(data, inf_nan) ==
    IF "points" \in DOMAIN data
    THEN [points |-> PositionsDump(data.points, inf_nan), color |-> data.color,
          width |-> data.width]
    ELSE [content |-> data.content, position |-> PositionDump(data.position, inf_nan),
          fontSize |-> dump_float(data.font_size, inf_nan)]

DataValidate(d) ==
    IF "points" \in DOMAIN d
    THEN [points |-> d.points, color |-> d.color, width |-> d.width]
    ELSE [content |-> d.content, position |-> d.position, font_size |-> d.fontSize]

DataValid(d) ==
    IF "points" \in DOMAIN d
    THEN \A i \in 1..Len(d.points) : PositionValid(d.points[i])
    ELSE PositionValid(d.position) /\ d.fontSize # "null"

AnnotationJsonDump(a, inf_nan) ==
    [id |-> a.id, type |-> a.type, userId |-> a.user_id, data |-> DataDump(a.data, inf_nan)]

AnnotationJsonValidate(d) ==
    [id |-> d.id, type |-> d.type, user_id |-> d.userId, data |-> DataValidate(d.data)]

\* CircuitState.model_dump(mode="json", by_alias=True).
model_dump(s, inf_nan) ==
    [sessionId |-> s.session_id, version |-> s.version, schemaVersion |-> s.schema_version,
     components |-> [i \in 1..Len(s.components) |->
                       CircuitComponentDump(s.components[i], inf_nan)],
     wires |-> [i \in 1..Len(s.wires) |-> WireJsonDump(s.wires[i], inf_nan)],
     annotations |-> [i \in 1..Len(s.annotations) |->
                        AnnotationJsonDump(s.annotations[i], inf_nan)]]

\* Whether CircuitState.model_validate accepts the document.
model_valid(d) ==
    /\ \A i \in 1..Len(d.components) :
          /\ PositionValid(d.components[i].position)
          /\ \A j \in 1..Len(d.components[i].pins) :
                PositionValid(d.components[i].pins[j].position)
    /\ \A i \in 1..Len(d.wires) :
          \A j \in 1..Len(d.wires[i].waypoints) : PositionValid(d.wires[i].waypoints[j])
    /\ \A i \in 1..Len(d.annotations) : DataValid(d.annotations[i].data)

\* CircuitState.model_validate on a document it accepts.
model_validate(d) ==
    [session_id |-> d.sessionId, version |-> d.version, schema_version |-> d.schemaVersion,
     components |-> d.components,
     wires |-> [i \in 1..Len(d.wires) |-> WireJsonValidate(d.wires[i])],
     annotations |-> [i \in 1..Len(d.annotations) |-> AnnotationJsonValidate(d.annotations[i])]]

SerialPins == {<<>>, << [id |-> "OUT", name |-> "Output", type |-> "output",
                         position |-> [x |-> "1.5", y |-> "0.0"]] >>}

SerialComponents ==
    {<<>>} \cup
    { << [id |-> "c1", type |-> "SWITCH_TOGGLE", position |-> [x |-> x, y |-> "0.0"],
          rotation |-> rotation, properties |-> properties, pins |-> pins] >> :
        x \in Floats, rotation \in {0, 90},
        properties \in {{}, {<<"state", "true">>}}, pins \in SerialPins }

SerialWires ==
    {<<>>} \cup
    { << [id |-> "w1", from_component_id |-> "c1", from_pin_id |-> "OUT",
          to_component_id |-> "c2", to_pin_id |-> "A", waypoints |-> waypoints] >> :
        waypoints \in {<<>>, << [x |-> "0.0", y |-> "1.5"] >>} }

StrokeAnnotation ==
    [id |-> "a1", type |-> "stroke", user_id |-> "t",
     data |-> [points |-> << [x |-> "0.0", y |-> "0.0"], [x |-> "1.5", y |-> "1.5"] >>,
               color |-> "#000000", width |-> 2]]

TextAnnotation ==
    [id |-> "a2", type |-> "text", user_id |-> "s1",
     data |-> [content |-> "note", position |-> [x |-> "0.0", y |-> "1.5"],
               font_size |-> "1.5"]]

SerialAnnotations ==
    {<<>>, <<StrokeAnnotation>>, <<TextAnnotation>>, <<StrokeAnnotation, TextAnnotation>>,
     <<TextAnnotation, StrokeAnnotation>>}

CircuitStates ==
    { [session_id |-> "ABC123", version |-> version, schema_version |-> schema_version,
       components |-> components, wires |-> wires, annotations |-> annotations] :
        version \in 0..MaxSerialVersion, schema_version \in {SCHEMA_VERSION, "2.3.4"},
        components \in SerialComponents, wires \in SerialWires,
        annotations \in SerialAnnotations }

InitSerial ==
    /\ events = <<>>
    /\ snapshots = {}
    /\ undo_stacks = [u \in Users |-> <<>>]
    /\ redo_stacks = [u \in Users |-> <<>>]
    /\ participants = [u \in Users |-> NoParticipant]
    /\ edit_requests = [u \in Users |-> NoRequest]
    /\ room_manager = RoomManager
    /\ online = {}
    /\ calls = [conn \in Connections |-> NoCall]
    /\ simulations = <<>>
    /\ engines = <<SimulationEngine, SimulationEngine>>
    /\ engine_calls = <<>>
    /\ chain = NoChain
    /\ \E original \in CircuitStates :
          last = [NoLast EXCEPT !.op = "CircuitState", !.before = original]

\* The state is dumped; the build's pydantic fixes what the float
\* serializer does with a value that is not finite.
ModelDump(inf_nan) ==
    /\ last.op = "CircuitState"
    /\ last' = [last EXCEPT !.op = "model_dump", !.ret = <<model_dump(last.before, inf_nan)>>]
    /\ UNCHANGED <<events, snapshots, undo_stacks, redo_stacks, participants, edit_requests,
                   room_manager, online, calls, simulations, engines, engine_calls, chain>>

\* The document is validated back: a state, or a ValidationError.
ModelValidate ==
    /\ last.op = "model_dump"
    /\ last' = IF model_valid(last.ret[1])
               THEN [last EXCEPT !.op = "model_validate", !.code = "OK",
                                 !.state = model_validate(last.ret[1])]
               ELSE [last EXCEPT !.op = "model_validate", !.code = "ValidationError"]
    /\ UNCHANGED <<events, snapshots, undo_stacks, redo_stacks, participants, edit_requests,
                   room_manager, online, calls, simulations, engines, engine_calls, chain>>

NextSerial ==
    \/ \E inf_nan \in {"null", "constants"} : ModelDump(inf_nan)
    \/ ModelValidate

SpecSerial == InitSerial /\ [][NextSerial]_vars

(***************************************************************************)
(* Engine specification: two SimulationEngine instances are loaded with    *)
(* the same circuit and receive the same calls.  Each engine pops its own  *)
(* queue.                                                                  *)
(***************************************************************************)
Pin(id, type) == [id |-> id, type |-> type]

Switch(id, state) ==
    [id |-> id, type |-> "SWITCH_TOGGLE", position |-> P0, properties |-> [state |-> state],
     pins |-> << Pin("OUT", "output") >>]

Gate(id, type) ==
    [id |-> id, type |-> type, position |-> P0, properties |-> [state |-> FALSE],
     pins |-> << Pin("A", "input"), Pin("B", "input"), Pin("Y", "output") >>]

Led(id) ==
    [id |-> id, type |-> "LED_RED", position |-> P0, properties |-> [state |-> FALSE],
     pins |-> << Pin("IN", "input") >>]

Clock(id) ==
    [id |-> id, type |-> "CLOCK", position |-> P0, properties |-> [state |-> FALSE],
     pins |-> << Pin("CLK", "output") >>]

Wire(id, from_component_id, from_pin_id, to_component_id, to_pin_id) ==
    [id |-> id, from_component_id |-> from_component_id, from_pin_id |-> from_pin_id,
     to_component_id |-> to_component_id, to_pin_id |-> to_pin_id]

Circuit(components, wires) == [create_empty EXCEPT !.components = components, !.wires = wires]

\* SW1 (LOW) and SW2 (HIGH) into an AND gate that drives an LED.
AndCircuit ==
    Circuit(<< Switch("SW1", FALSE), Switch("SW2", TRUE), Gate("AND", "AND_2"), Led("LED") >>,
            << Wire("w1", "SW1", "OUT", "AND", "A"), Wire("w2", "SW2", "OUT", "AND", "B"),
               Wire("w3", "AND", "Y", "LED", "IN") >>)

\* A switch and the gate's own output into an XOR gate: with the switch HIGH
\* the output never settles.
FeedbackCircuit ==
    Circuit(<< Switch("SW1", FALSE), Gate("XOR", "XOR_2") >>,
            << Wire("w1", "SW1", "OUT", "XOR", "A"), Wire("w2", "XOR", "Y", "XOR", "B") >>)

\* A clock and a switch into an AND gate that drives an LED.
ClockCircuit ==
    Circuit(<< Clock("CLK1"), Switch("SW1", TRUE), Gate("AND", "AND_2"), Led("LED") >>,
            << Wire("w1", "CLK1", "CLK", "AND", "A"), Wire("w2", "SW1", "OUT", "AND", "B"),
               Wire("w3", "AND", "Y", "LED", "IN") >>)

Counter(id) ==
    [id |-> id, type |-> "COUNTER_4BIT", position |-> P0, properties |-> [state |-> FALSE],
     pins |-> << Pin("CLK", "input"), Pin("Q0", "output"), Pin("Q1", "output"),
                 Pin("Q2", "output"), Pin("Q3", "output") >>]

DFlipFlop(id) ==
    [id |-> id, type |-> "D_FLIPFLOP", position |-> P0, properties |-> [state |-> FALSE],
     pins |-> << Pin("D", "input"), Pin("CLK", "input"), Pin("Q", "output"),
                 Pin("Q'", "output") >>]

\* A clock into the CLK input of a 4-bit counter.
CounterCircuit ==
    Circuit(<< Clock("CLK1"), Counter("CNT") >>, << Wire("w1", "CLK1", "CLK", "CNT", "CLK") >>)

\* The same with an LED on the counter's lowest bit.
CounterLedCircuit ==
    Circuit(<< Clock("CLK1"), Counter("CNT"), Led("LED") >>,
            << Wire("w1", "CLK1", "CLK", "CNT", "CLK"), Wire("w2", "CNT", "Q0", "LED", "IN") >>)

\* The same with the counter listed before its clock and an LED on the
\* highest bit.
CounterFirstCircuit ==
    Circuit(<< Counter("CNT"), Clock("CLK1"), Led("LED") >>,
            << Wire("w1", "CNT", "Q3", "LED", "IN"), Wire("w2", "CLK1", "CLK", "CNT", "CLK") >>)

CounterCircuits == {CounterCircuit, CounterLedCircuit, CounterFirstCircuit}

\* Two switches, both HIGH, into an AND gate that drives an LED.
HighCircuit ==
    Circuit(<< Switch("SW1", TRUE), Switch("SW2", TRUE), Gate("AND", "AND_2"), Led("LED") >>,
            << Wire("w1", "SW1", "OUT", "AND", "A"), Wire("w2", "SW2", "OUT", "AND", "B"),
               Wire("w3", "AND", "Y", "LED", "IN") >>)

\* A D flip-flop with SW1 (LOW) on D and SW2 on CLK, its Q into an LED.
DffCircuit(clock_state) ==
    Circuit(<< Switch("SW1", FALSE), Switch("SW2", clock_state), DFlipFlop("DFF"), Led("LED") >>,
            << Wire("w1", "SW1", "OUT", "DFF", "D"), Wire("w2", "SW2", "OUT", "DFF", "CLK"),
               Wire("w3", "DFF", "Q", "LED", "IN") >>)

Circuits ==
    {AndCircuit, FeedbackCircuit, ClockCircuit, HighCircuit, DffCircuit(FALSE), DffCircuit(TRUE)}

InitEngine ==
    /\ events = <<>>
    /\ snapshots = {}
    /\ undo_stacks = [u \in Users |-> <<>>]
    /\ redo_stacks = [u \in Users |-> <<>>]
    /\ participants = [u \in Users |-> NoParticipant]
    /\ edit_requests = [u \in Users |-> NoRequest]
    /\ room_manager = RoomManager
    /\ online = {}
    /\ calls = [conn \in Connections |-> NoCall]
    /\ simulations = <<>>
    /\ \E circuit \in Circuits : engines = <<load_circuit(circuit), load_circuit(circuit)>>
    /\ engine_calls = <<>>
    /\ last = NoLast
    /\ chain = NoChain

\* A call without a queue pop, made on both engines.
EngineCall(op, arg, a, b) ==
    /\ Len(engine_calls) < MaxEngineCalls
    /\ engines' = <<a, b>>
    /\ engine_calls' = Append(engine_calls, [op |-> op, arg |-> arg, processed |-> 0])
    /\ UNCHANGED <<events, snapshots, undo_stacks, redo_stacks, participants, edit_requests,
                   room_manager, online, calls, simulations, last, chain>>

ToggleSwitch(component_id) ==
    EngineCall("toggle_switch", component_id, toggle_switch(engines[1], component_id),
               toggle_switch(engines[2], component_id))

TickClock(component_id) ==
    EngineCall("tick_clock", component_id, tick_clock(engines[1], component_id),
               tick_clock(engines[2], component_id))

SetInput(component_id, value) ==
    EngineCall("set_input", <<component_id, value>>, set_input(engines[1], component_id, value),
               set_input(engines[2], component_id, value))

\* step on both engines: each pops an event that heappop may return from
\* its own queue.
Step ==
    /\ Len(engine_calls) < MaxEngineCalls
    /\ IF engines[1].events = {} \/ engines[2].events = {}
       THEN engines' = <<step(engines[1]), step(engines[2])>>
       ELSE \E a \in heap_min(engines[1].events), b \in heap_min(engines[2].events) :
               engines' = <<step_event(engines[1], a), step_event(engines[2], b)>>
    /\ engine_calls' = Append(engine_calls,
                              [op |-> "step", arg |-> 0,
                               processed |-> IF engines[1].events = {} THEN 0 ELSE 1])
    /\ UNCHANGED <<events, snapshots, undo_stacks, redo_stacks, participants, edit_requests,
                   room_manager, online, calls, simulations, last, chain>>

Run(max_steps) ==
    /\ Len(engine_calls) < MaxEngineCalls
    /\ engines' = <<run(engines[1], max_steps).engine, run(engines[2], max_steps).engine>>
    /\ engine_calls' = Append(engine_calls,
                              [op |-> "run", arg |-> max_steps,
                               processed |-> run(engines[1], max_steps).processed])
    /\ UNCHANGED <<events, snapshots, undo_stacks, redo_stacks, participants, edit_requests,
                   room_manager, online, calls, simulations, last, chain>>

NextEngine ==
    \/ \E id \in {"SW1", "SW2", "CLK1"} : ToggleSwitch(id)
    \/ \E id \in {"SW1", "CLK1"} : TickClock(id)
    \/ \E id \in {"SW1", "CLK1"}, value \in BOOLEAN : SetInput(id, value)
    \/ Step
    \/ \E max_steps \in 0..MaxSteps : Run(max_steps)

SpecEngine == InitEngine /\ [][NextEngine]_vars

(***************************************************************************)
(* Simulation-session specification: two sessions with a running           *)
(* simulation each; the teacher and a student of the first and the teacher *)
(* of the second send simulation:toggle, simulation:clock:tick and         *)
(* simulation:step concurrently.  A handler is suspended at its awaits:    *)
(* get_participant before it touches the engine, broadcast_to_room after.  *)
(* simulations maps the session code to the engine of the session.         *)
(***************************************************************************)
SimSessions == {"S1", "S2"}

\* The session each participant's connection was opened for.
SessionOf(participant_id) == IF participant_id = "s2" THEN "S2" ELSE "S1"

SimMessages ==
    { <<"simulation:toggle", "SW1">>, <<"simulation:clock:tick", "CLK1">>,
      <<"simulation:step", "none">> }

\* What a simulation handler does to the engine between its two awaits.
engine_apply(engine, op, arg) ==
    IF op = "simulation:toggle" THEN run(toggle_switch(engine, arg), DEFAULT_MAX_STEPS).engine
    ELSE IF op = "simulation:clock:tick"
    THEN run(tick_clock(engine, arg), DEFAULT_MAX_STEPS).engine
    ELSE step(engine)

\* A handler that works on one engine shared by all the sessions.
handle_simulation_shared(sims, session_code, op, arg) ==
    [code \in DOMAIN sims |-> engine_apply(sims[code], op, arg)]

\* "engine = self._simulations.get(session_code); if not engine: return",
\* and then the calls on that engine, which change it in place.
handle_simulation(sims, session_code, op, arg) ==
    IF session_code \notin DOMAIN sims THEN sims
    ELSE [sims EXCEPT ![session_code] = engine_apply(@, op, arg)]

InitSim ==
    /\ events = <<>>
    /\ snapshots = {[version |-> 0, state |-> StateDump(create_empty)]}
    /\ undo_stacks = [u \in Users |-> <<>>]
    /\ redo_stacks = [u \in Users |-> <<>>]
    /\ participants = [u \in Users |-> IF u = "s1" THEN [join_session(u, Teacher) EXCEPT
                                                            !.can_edit = TRUE]
                                       ELSE join_session(u, u)]
    /\ edit_requests = [u \in Users |-> IF u = "s1" THEN "approved" ELSE NoRequest]
    /\ room_manager = Registered(Users)
    /\ online = Registered(Users).rooms
    /\ calls = [conn \in Connections |-> NoCall]
    /\ \E first \in {ClockCircuit, HighCircuit}, second \in {ClockCircuit, AndCircuit} :
          simulations = [code \in SimSessions |->
                           run(load_circuit(IF code = "S1" THEN first ELSE second),
                               DEFAULT_MAX_STEPS).engine]
    /\ engines = <<SimulationEngine, SimulationEngine>>
    /\ engine_calls = <<>>
    /\ last = NoLast
    /\ chain = NoChain

\* The message is received; the handler awaits get_participant.
SimBegin(conn, op, arg) ==
    /\ conn \in online
    /\ calls[conn].pc = "idle"
    /\ Len(engine_calls) + Cardinality({c \in online : calls[c].pc = "get_participant"})
          < MaxSimCalls
    /\ calls' = [calls EXCEPT ![conn] = [pc |-> "get_participant", op |-> op, arg |-> arg]]
    /\ UNCHANGED <<events, snapshots, undo_stacks, redo_stacks, participants, edit_requests,
                   room_manager, online, simulations, engines, engine_calls, last, chain>>

\* The participant has been read: the permission check, the engine of the
\* session, and the calls on it, up to the await of the broadcast.
SimApply(conn) ==
    /\ calls[conn].pc = "get_participant"
    /\ LET c == calls[conn]
           participant == participants[conn.participant_id]
           allowed == participant # NoParticipant /\ participant.can_edit
           session_code == SessionOf(conn.participant_id)
       IN IF ~allowed
          THEN /\ calls' = [calls EXCEPT ![conn] = NoCall]
               /\ last' = [Returned(conn, c.op, "FORBIDDEN") EXCEPT
                              !.errTo = send_to_participant(room_manager, conn.participant_id)]
               /\ UNCHANGED <<simulations, engine_calls>>
          ELSE /\ simulations' = handle_simulation(simulations, session_code, c.op, c.arg)
               /\ engine_calls' = Append(engine_calls,
                                         [op |-> c.op, arg |-> c.arg, processed |-> 0,
                                          session |-> session_code])
               /\ calls' = [calls EXCEPT ![conn] = [c EXCEPT !.pc = "broadcast"]]
               /\ UNCHANGED last
    /\ UNCHANGED <<events, snapshots, undo_stacks, redo_stacks, participants, edit_requests,
                   room_manager, online, engines, chain>>

\* simulation:state:updated is broadcast to the room and the handler returns.
SimFinish(conn) ==
    /\ calls[conn].pc = "broadcast"
    /\ calls' = [calls EXCEPT ![conn] = NoCall]
    /\ last' = [Returned(conn, calls[conn].op, "OK") EXCEPT
                   !.bcast = << Message("simulation:state:updated",
                                        {to \in broadcast_to_room(room_manager, {}) :
                                            SessionOf(to.participant_id) =
                                               SessionOf(conn.participant_id)}) >>]
    /\ UNCHANGED <<events, snapshots, undo_stacks, redo_stacks, participants, edit_requests,
                   room_manager, online, simulations, engines, engine_calls, chain>>

NextSim ==
    \/ \E conn \in online, m \in SimMessages : SimBegin(conn, m[1], m[2])
    \/ \E conn \in online : SimApply(conn)
    \/ \E conn \in online : SimFinish(conn)

SpecSim == InitSim /\ [][NextSim]_vars

(***************************************************************************)
(* Counter specification: a clock wired to a 4-bit counter, ticked and run *)
(* in turn, long enough for the counter to wrap.                           *)
(***************************************************************************)
InitCounter ==
    /\ events = <<>>
    /\ snapshots = {}
    /\ undo_stacks = [u \in Users |-> <<>>]
    /\ redo_stacks = [u \in Users |-> <<>>]
    /\ participants = [u \in Users |-> NoParticipant]
    /\ edit_requests = [u \in Users |-> NoRequest]
    /\ room_manager = RoomManager
    /\ online = {}
    /\ calls = [conn \in Connections |-> NoCall]
    /\ simulations = <<>>
    /\ \E circuit \in CounterCircuits :
          engines = <<load_circuit(circuit), load_circuit(circuit)>>
    /\ engine_calls = <<>>
    /\ last = NoLast
    /\ chain = NoChain

\* The call made last on the engines.
LastOp == IF engine_calls = <<>> THEN "load_circuit" ELSE engine_calls[Len(engine_calls)].op

\* tick_clock on the clock, once the tick before it has been run.
CounterTick ==
    /\ Len(engine_calls) < 2 * MaxTicks
    /\ LastOp # "tick_clock"
    /\ engines' = <<tick_clock(engines[1], "CLK1"), tick_clock(engines[2], "CLK1")>>
    /\ engine_calls' = Append(engine_calls, [op |-> "tick_clock", arg |-> "CLK1", processed |-> 0])
    /\ UNCHANGED <<events, snapshots, undo_stacks, redo_stacks, participants, edit_requests,
                   room_manager, online, calls, simulations, last, chain>>

\* run() after a tick.
CounterRun ==
    /\ LastOp = "tick_clock"
    /\ engines' = <<run(engines[1], DEFAULT_MAX_STEPS).engine,
                    run(engines[2], DEFAULT_MAX_STEPS).engine>>
    /\ engine_calls' = Append(engine_calls,
                              [op |-> "run", arg |-> DEFAULT_MAX_STEPS,
                               processed |-> run(engines[1], DEFAULT_MAX_STEPS).processed])
    /\ UNCHANGED <<events, snapshots, undo_stacks, redo_stacks, participants, edit_requests,
                   room_manager, online, calls, simulations, last, chain>>

NextCounter ==
    \/ CounterTick
    \/ CounterRun

SpecCounter == InitCounter /\ [][NextCounter]_vars

(***************************************************************************)
(* Properties.                                                             *)
(***************************************************************************)
CurrentState == get_circuit_state(snapshots, events)

Range(s) == {s[i] : i \in 1..Len(s)}
Count(s, x) == Cardinality({i \in 1..Len(s) : s[i] = x})
SameItems(a, b) == \A x \in Range(a) \cup Range(b) : Count(a, x) = Count(b, x)

\* Equal components (with positions), wires and annotations, whatever the
\* version and the order of the lists.
SameView(v, w) ==
    /\ SameItems(v.components, w.components)
    /\ SameItems(v.wires, w.wires)
    /\ SameItems(v.annotations, w.annotations)

IsPrefix(a, b) == Len(a) <= Len(b) /\ SubSeq(b, 1, Len(a)) = a

\* C1: under any interleaving of concurrent mutation, undo and redo calls
\* the versions of the stored events are exactly 1..N, with no duplicate and
\* no gap: of two callers that read the same head version, at most one
\* appends the next version.
C1_VersionsContiguous ==
    \A i \in 1..Len(events) : events[i].version = i

\* Two callers had read the same head version; one has stored its event, the
\* insert of the other was rejected.
C1_Witness ==
    /\ last.code = "DuplicateKeyError"
    /\ \E i \in 1..Len(events) : events[i].userId # last.user
    /\ Len(events) >= 2

\* C2: get_circuit_state, which folds the latest snapshot and the events
\* after it, returns the components, wires and annotations that folding all
\* events from version 0 onto an empty state returns.
C2_SnapshotFoldEqualsFullFold ==
    View(get_circuit_state(snapshots, events))
        = View(Fold(create_empty, get_all_events(events), 1, Len(events)))

C2_Witness ==
    /\ \E sn \in snapshots : /\ sn.version = SNAPSHOT_INTERVAL
                              /\ Len(sn.state.components) >= 2
                              /\ Len(sn.state.wires) >= 1
    /\ Len(events) > SNAPSHOT_INTERVAL
    /\ get_events_since_version(events, SNAPSHOT_INTERVAL) # <<>>

\* C3: in every reconstructed state no (component, input pin) pair is the
\* target of two or more wires.
C3_FanInAtMostOne ==
    \A i, j \in 1..Len(CurrentState.wires) :
        (/\ i # j
         /\ CurrentState.wires[i].to_component_id = CurrentState.wires[j].to_component_id
         /\ CurrentState.wires[i].to_pin_id = CurrentState.wires[j].to_pin_id) => FALSE

\* No id names two components, two wires or two annotations of the view.
DistinctIds(v) ==
    /\ \A i, j \in 1..Len(v.components) : v.components[i].id = v.components[j].id => i = j
    /\ \A i, j \in 1..Len(v.wires) : v.wires[i].id = v.wires[j].id => i = j
    /\ \A i, j \in 1..Len(v.annotations) : v.annotations[i].id = v.annotations[j].id => i = j

\* C4: an undo by U right after a successful command C by U yields the
\* components (with their positions), wires and annotations of the state
\* before C.  Stated for commands on circuits in which ids are distinct before
\* and after C.
C4_UndoRestoresBefore ==
    (chain.stage = 2 /\ DistinctIds(chain.before) /\ DistinctIds(chain.after))
        => SameView(View(CurrentState), chain.before)

\* C5: command C, undo, redo by the same user in direct succession yield the
\* components, wires and annotations of the state right after C.
C5_RedoRestoresAfter ==
    chain.stage = 3 => SameView(View(CurrentState), chain.after)

\* The wires of a state that touch a component.
Touching(state, id) ==
    {i \in 1..Len(state.wires) : \/ state.wires[i].from_component_id = id
                                 \/ state.wires[i].to_component_id = id}

\* C6: delete_component on a component with K attached wires appends exactly
\* K WireDeleted events, one per wire touching the component, followed by one
\* ComponentDeleted event, and returns a state without the component and
\* without those wires.
C6_CascadeDelete ==
    (last.op = "circuit:component:delete" /\ last.code = "OK") =>
        LET n == Len(last.ret)
            id == last.ret[n].payload.component_id
            touching == Touching(last.before, id)
            K == Cardinality(touching)
        IN /\ n = K + 1
           /\ last.ret[n].type = "COMPONENT_DELETED"
           /\ \A i \in 1..K : last.ret[i].type = "WIRE_DELETED"
           /\ \E f \in [1..K -> touching] :
                 /\ \A i, j \in 1..K : f[i] = f[j] => i = j
                 /\ \A i \in 1..K : last.ret[i].payload.wire_id = last.before.wires[f[i]].id
           /\ Len(events) >= n
           /\ SubSeq(events, Len(events) - n + 1, Len(events))
                 = [i \in 1..n |-> EventDump(last.ret[i])]
           /\ \A i \in 1..Len(last.state.components) : last.state.components[i].id # id
           /\ Touching(last.state, id) = {}
           /\ \A i \in 1..Len(last.state.wires), j \in touching :
                 last.state.wires[i].id # last.before.wires[j].id

C6_Witness ==
    /\ last.op = "circuit:component:delete"
    /\ last.code = "OK"
    /\ Len(last.ret) >= 2

\* C7: a command rejected by validation or with Not-Found appends no event
\* and leaves the undo and redo stacks unchanged.
C7_RejectedChangesNothing ==
    [][(/\ last'.op \in Commands
        /\ last'.code \in {"DUPLICATE_WIRE", "INPUT_ALREADY_CONNECTED", "INVALID_WIRE",
                           "INVALID_WIRE_DIRECTION", "NOT_FOUND"})
       => (/\ events' = events
           /\ undo_stacks' = undo_stacks
           /\ redo_stacks' = redo_stacks)]_vars

C7_Witness ==
    /\ last.op = "circuit:wire:add"
    /\ last.code = "INPUT_ALREADY_CONNECTED"
    /\ \E u \in Users : undo_stacks[u] # <<>>

\* C8: every operation of the mutation service, undo and redo included, only
\* appends to the event log: the log before is a prefix of the log after.
C8_AppendOnly == [][IsPrefix(events, events')]_vars

C8_Witness ==
    /\ last.op = "circuit:undo"
    /\ last.code = "OK"
    /\ Len(events) >= 2

\* The step handles a circuit mutation message whose sender's stored canEdit
\* flag is not true when the message is processed.
MutationWithoutPermission ==
    /\ last'.op \in Commands
    /\ ~participants[last'.user].can_edit

\* Such a message appends no event, is broadcast to nobody, and no one but
\* the sender is sent an error.
EditGate ==
    MutationWithoutPermission =>
        /\ events' = events
        /\ last'.bcast = <<>>
        /\ last'.errTo \subseteq {last'.conn}

\* C9: a circuit mutation message is delegated to the mutation service only
\* if the sender's stored canEdit flag is true when the message is processed;
\* otherwise no event is appended, nothing is broadcast to the room and only
\* the sender receives an error.  The flag is read for every message.
C9_EditPermissionChecked ==
    [][EditGate /\ (MutationWithoutPermission => last'.errTo = {last'.conn})]_vars

TeacherOnly == {"permission:approve", "permission:deny", "permission:revoke", "permission:kick"}

\* The step handles a teacher-only permission message whose sender's role is
\* not teacher.
PermissionFromNonTeacher ==
    /\ last'.op \in TeacherOnly
    /\ participants[last'.user].role # "teacher"

\* Such a message changes no participant record, no edit request and no room
\* membership, broadcasts nothing, and no one but the sender is sent an error.
TeacherGate ==
    PermissionFromNonTeacher =>
        /\ participants' = participants
        /\ edit_requests' = edit_requests
        /\ room_manager' = room_manager
        /\ last'.bcast = <<>>
        /\ last'.errTo \subseteq {last'.conn}

\* C10: permission:approve, permission:deny, permission:revoke and
\* permission:kick from a participant whose role is not teacher change no
\* canEdit flag, no edit-request status, no participant record and no room
\* membership, broadcast nothing, and result in an error sent only to the
\* sender.
C10_TeacherOnlyPermissions ==
    [][TeacherGate /\ (PermissionFromNonTeacher => last'.errTo = {last'.conn})]_vars

\* The connections whose participant record a kick has deleted: their
\* receive loop still runs, and only a kick deletes a record.
Kicked(conns, parts) == {conn \in conns : parts[conn.participant_id] = NoParticipant}

\* The step handles a message received on a connection that was kicked
\* before the step.
MessageFromKicked ==
    /\ last'.conn \in Kicked(online, participants)
    /\ last'.op \notin {"connect", "disconnect", "malformed"}

\* C11: after a teacher kicks a participant the participant's record is
\* deleted, their connection is out of the room and is sent no further room
\* broadcast, and no message later received on that connection is
\* processed: it appends no event and nothing is broadcast for it.
C11_KickedIsDisconnected ==
    [][/\ \A conn \in Kicked(online', participants') :
             /\ conn \notin room_manager'.rooms
             /\ \A i \in 1..Len(last'.bcast) :
                    last'.bcast[i].type # "session:kicked" => conn \notin last'.bcast[i].to
       /\ MessageFromKicked => events' = events /\ last'.bcast = <<>>]_vars

\* The step handles a message whose processing fails: with an application
\* error, on a malformed payload, or on a version conflict at the insert.
MessageFails ==
    /\ last'.op \notin {"connect", "disconnect"}
    /\ last'.code \in AppErrors \cup {"INTERNAL_ERROR", "DuplicateKeyError"}

\* C12: when processing an inbound message fails, for any kind of error,
\* the sender and only the sender is sent an error message, the sender's
\* connection stays active and registered in its room, and no other
\* connection of the room is closed or removed.
C12_ErrorKeepsConnections ==
    [][MessageFails => /\ last'.errTo = {last'.conn}
                       /\ online' = online
                       /\ room_manager' = room_manager]_vars

\* The step handles simulation:start on a circuit that the validation of the
\* simulation service rejects: an input pin of a component that is no input
\* device has no wire, or an input pin has more than one driver.
StartOnInvalidCircuit ==
    /\ last'.op = "simulation:start"
    /\ validate_circuit(last'.state) # <<>>

\* C13: simulation:start on a circuit with an undriven input pin on a
\* non-source component, or an input pin with more than one driver, loads and
\* runs no simulation engine for the session, announces no started
\* simulation, and returns the list of validation errors.
C13_InvalidCircuitNotSimulated ==
    [][StartOnInvalidCircuit =>
          /\ simulations' = simulations
          /\ last'.bcast = <<>>
          /\ last'.ret = validate_circuit(last'.state)]_vars

\* C14: run(max_steps) returns, also on a circuit whose feedback keeps the
\* queue non-empty, and has then processed at most max_steps events.
C14_RunProcessesAtMostMaxSteps ==
    \A i \in 1..Len(engine_calls) :
        engine_calls[i].op = "run" => engine_calls[i].processed <= engine_calls[i].arg

\* C15: two engines loaded with the same circuit and given the same
\* sequence of toggle_switch, tick_clock, set_input, step and run calls hold
\* the same pin values, the same queue of pending events and the same
\* simulated time after every call.
C15_EnginesAgree == engines[1] = engines[2]

\* Two events were scheduled for the same time, a step popped one of them
\* and the other is still queued.
C15_Witness ==
    /\ Len(engine_calls) >= 3
    /\ engine_calls[1].op = "toggle_switch"
    /\ engine_calls[2].op = "toggle_switch"
    /\ engine_calls[3].op = "step"
    /\ engine_calls[3].processed = 1
    /\ \E e \in engines[1].events : e.time = 0 /\ e.seq = 1

\* The engines hold the AND circuit and the calls made so far are exactly
\* the given ones, the last of them a run that emptied the queue.
AndCircuitAfter(ops) ==
    /\ engines[1].components = AndCircuit.components
    /\ Len(engine_calls) = Len(ops)
    /\ \A i \in 1..Len(ops) : engine_calls[i].op = ops[i][1] /\ engine_calls[i].arg = ops[i][2]
    /\ engines[1].events = {}

\* C16: for SW1.OUT -> AND.A, SW2.OUT -> AND.B, AND.Y -> LED.IN with SW1 LOW
\* and SW2 HIGH, the pin LED.IN is LOW after load_circuit and run, and HIGH
\* after toggle_switch(SW1) followed by run.
C16_AndCircuitSettles ==
    \A max_steps \in 0..MaxSteps :
        /\ AndCircuitAfter(<< <<"run", max_steps>> >>) =>
               get_pin_states(engines[1], "LED", "IN") = LOW
        /\ \A again \in 0..MaxSteps :
               AndCircuitAfter(<< <<"run", max_steps>>, <<"toggle_switch", "SW1">>,
                                  <<"run", again>> >>) =>
                  get_pin_states(engines[1], "LED", "IN") = HIGH

\* C17: a participant's undo stack never holds more than UNDO_LIMIT events,
\* and a push onto a full stack discards the oldest events: what stays of
\* the old stack is its newest end, below the events pushed.
C17_UndoStackCapped ==
    [][\A u \in Users :
          /\ Len(undo_stacks'[u]) <= UNDO_LIMIT
          /\ (Len(undo_stacks[u]) = UNDO_LIMIT /\ Len(undo_stacks'[u]) >= UNDO_LIMIT
               /\ undo_stacks'[u] # undo_stacks[u])
             => \E k \in 1..UNDO_LIMIT :
                   SubSeq(undo_stacks'[u], 1, UNDO_LIMIT - k)
                      = SubSeq(undo_stacks[u], k + 1, UNDO_LIMIT)]_vars

\* C18: a command, an undo or a redo of one participant leaves the undo stack
\* and the redo stack of every other participant as they were, and the event
\* an undo takes from the stack and inverts is one its caller authored.
C18_StacksArePerUser ==
    [][last'.op \in Commands \cup {"circuit:undo", "circuit:redo"} =>
          /\ \A b \in Users \ {last'.user} :
                /\ undo_stacks'[b] = undo_stacks[b]
                /\ redo_stacks'[b] = redo_stacks[b]
          /\ (last'.op = "circuit:undo" /\ undo_stacks[last'.user] # <<>>) =>
                LET undo_stack == undo_stacks[last'.user]
                IN undo_stack[Len(undo_stack)].user_id = last'.user]_vars

C18_Witness ==
    /\ last.op = "circuit:undo"
    /\ last.code = "OK"
    /\ \E b \in Users \ {last.user} : redo_stacks[b] # <<>>

\* C19: a successful connect sends sync:state first, to the new connection
\* and to no other, and then presence:participant:joined to every other open
\* connection of the room and not to the new one.
C19_SyncThenJoined ==
    [][(last'.op = "connect" /\ last'.code = "OK") =>
          /\ Len(last'.bcast) = 2
          /\ last'.bcast[1] = Message("sync:state", {last'.conn})
          /\ last'.bcast[2].type = "presence:participant:joined"
          /\ last'.bcast[2].to \cap online'
                = (room_manager'.rooms \cap online') \ {last'.conn}]_vars

\* C20: once every connection of the session has closed, the room manager
\* holds no room entry and no registered connection.
C20_ClosedRoomIsEmpty ==
    online = {} =>
        /\ room_manager.rooms = {}
        /\ \A p \in Users : room_manager.connections[p] = NoConnection

\* C21: once the last connection of the session has closed, no undo stack
\* and no redo stack of the session holds an event and the session has no
\* simulation engine.
C21_LastDisconnectDiscards ==
    (online = {} /\ last.op \in {"disconnect", "malformed"}) =>
        /\ \A u \in Users : undo_stacks[u] = <<>> /\ redo_stacks[u] = <<>>
        /\ simulations = <<>>

\* C22: when a circuit message is broadcast to a room that holds a closed
\* connection, whose send fails, every open connection of the room is sent
\* every message of the broadcast, the sender is sent no error and its
\* connection stays open.
C22_FailedSendIsIsolated ==
    [][(last'.op \in Commands \cup {"circuit:undo", "circuit:redo"} /\ last'.bcast # <<>>) =>
          /\ \A i \in 1..Len(last'.bcast) :
                last'.sent[i] = room_manager.rooms \cap online
          /\ last'.code = "OK"
          /\ last'.errTo = {}
          /\ last'.conn \in online']_vars

C22_Witness ==
    /\ last.op \in Commands
    /\ last.bcast # <<>>
    /\ \E conn \in last.bcast[1].to : conn \notin online
    /\ \E conn \in last.sent[1] : conn # last.conn

\* C23: in the state reconstructed from the events, no two components have
\* the same id.
C23_ComponentIdsUnique ==
    LET state == get_circuit_state(snapshots, events)
    IN \A i, j \in 1..Len(state.components) :
          state.components[i].id = state.components[j].id => i = j

SameComponent(a, b) ==
    /\ a.id = b.id /\ a.type = b.type
    /\ float_eq(a.position.x, b.position.x) /\ float_eq(a.position.y, b.position.y)
    /\ a.rotation = b.rotation /\ a.properties = b.properties
    /\ Len(a.pins) = Len(b.pins)

SameWire(a, b) ==
    /\ a.id = b.id
    /\ a.from_component_id = b.from_component_id /\ a.from_pin_id = b.from_pin_id
    /\ a.to_component_id = b.to_component_id /\ a.to_pin_id = b.to_pin_id
    /\ Len(a.waypoints) = Len(b.waypoints)

SameState(a, b) ==
    /\ a.session_id = b.session_id /\ a.version = b.version
    /\ a.schema_version = b.schema_version
    /\ Len(a.components) = Len(b.components)
    /\ \A i \in 1..Len(a.components) : SameComponent(a.components[i], b.components[i])
    /\ Len(a.wires) = Len(b.wires)
    /\ \A i \in 1..Len(a.wires) : SameWire(a.wires[i], b.wires[i])
    /\ Len(a.annotations) = Len(b.annotations)
    /\ \A i \in 1..Len(a.annotations) :
          /\ a.annotations[i].id = b.annotations[i].id
          /\ a.annotations[i].type = b.annotations[i].type
          /\ a.annotations[i].user_id = b.annotations[i].user_id

\* C24: a state that was dumped to JSON by alias validates back, to a state
\* with the same session id, version, schema version, components, wires and
\* annotations, in the same order.
C24_SerializationRoundTrip ==
    last.op = "model_validate" => last.code = "OK" /\ SameState(last.state, last.before)

\* The stored events that set the position of the component before the
\* given move: its ComponentAdded and ComponentMoved events of lower version.
PositionSetters(evs, move) ==
    {i \in 1..Len(evs) :
        /\ evs[i].version < move.version
        /\ \/ /\ evs[i].type = "COMPONENT_ADDED"
              /\ evs[i].payload.component.id = move.payload.component_id
           \/ /\ evs[i].type = "COMPONENT_MOVED"
              /\ evs[i].payload.componentId = move.payload.component_id}

PositionBefore(evs, move) ==
    LET e == CHOOSE e \in {evs[i] : i \in PositionSetters(evs, move)} :
                \A i \in PositionSetters(evs, move) : evs[i].version <= e.version
    IN IF e.type = "COMPONENT_ADDED" THEN e.payload.component.position
       ELSE e.payload.position

UndoOfMove ==
    /\ last'.op = "circuit:undo"
    /\ last'.code = "OK"
    /\ undo_stacks[last'.user] # <<>>
    /\ undo_stacks[last'.user][Len(undo_stacks[last'.user])].type = "COMPONENT_MOVED"

\* C25: the inverse event an undo appends for a ComponentMoved event carries
\* the position the component had right before that move: the one set by the
\* latest ComponentAdded or ComponentMoved event of the component that
\* precedes the move.
C25_MoveInverseRestoresPosition ==
    [][UndoOfMove =>
          LET move == undo_stacks[last'.user][Len(undo_stacks[last'.user])]
          IN /\ PositionSetters(events, move) # {}
             /\ last'.ret[1].type = "COMPONENT_MOVED"
             /\ last'.ret[1].payload.position = PositionBefore(events, move)]_vars

UndoAfterCascade ==
    /\ last.op = "circuit:component:delete"
    /\ last.code = "OK"
    /\ Len(last.ret) > 1
    /\ last'.op = "circuit:undo"
    /\ last'.user = last.user

\* C26: after a delete_component that deleted K >= 1 attached wires with the
\* component, one undo by the same user brings the whole group back: the
\* component and the K wires are in the reconstructed state again.
C26_UndoReversesCascade ==
    [][UndoAfterCascade =>
          \A k \in 1..Len(last.ret) :
             IF last.ret[k].type = "COMPONENT_DELETED"
             THEN \E i \in 1..Len(last'.state.components) :
                     last'.state.components[i].id = last.ret[k].payload.component_id
             ELSE \E i \in 1..Len(last'.state.wires) :
                     last'.state.wires[i].id = last.ret[k].payload.wire_id]_vars

\* Wires a client can ask for: every pair of the pins named, existing or not.
PinProbes == {<<"c1", "OUT">>, <<"c2", "A">>, <<"c2", "Y">>, <<"c2", "Z">>}

WireProbes ==
    { [id |-> "w2", from_component_id |-> f[1], from_pin_id |-> f[2],
       to_component_id |-> t[1], to_pin_id |-> t[2]] : f \in PinProbes, t \in PinProbes }

HasPin(state, component_id, pin_id, types) ==
    \E i \in 1..Len(state.components) :
       /\ state.components[i].id = component_id
       /\ \E j \in 1..Len(state.components[i].pins) :
             /\ state.components[i].pins[j].id = pin_id
             /\ state.components[i].pins[j].type \in types

SamePair(state, w) ==
    \E i \in 1..Len(state.wires) :
       /\ state.wires[i].from_component_id = w.from_component_id
       /\ state.wires[i].from_pin_id = w.from_pin_id
       /\ state.wires[i].to_component_id = w.to_component_id
       /\ state.wires[i].to_pin_id = w.to_pin_id

TargetDriven(state, w) ==
    \E i \in 1..Len(state.wires) :
       /\ state.wires[i].to_component_id = w.to_component_id
       /\ state.wires[i].to_pin_id = w.to_pin_id

EndpointMissing(state, w) ==
    \/ ~HasPin(state, w.from_component_id, w.from_pin_id, {"input", "output"})
    \/ ~HasPin(state, w.to_component_id, w.to_pin_id, {"input", "output"})

WrongDirection(state, w) ==
    \/ ~HasPin(state, w.from_component_id, w.from_pin_id, {"output"})
    \/ ~HasPin(state, w.to_component_id, w.to_pin_id, {"input"})

\* C27: the validation of a wire reports the first check that fails, in the
\* order: identical pair (DUPLICATE_WIRE), target pin already driven
\* (INPUT_ALREADY_CONNECTED), endpoint component or pin missing
\* (INVALID_WIRE), direction not output to input (INVALID_WIRE_DIRECTION).
C27_WireChecksInOrder ==
    LET state == CurrentState
    IN \A w \in WireProbes :
          validate_wire_connection(state, w) =
             IF SamePair(state, w) THEN "DUPLICATE_WIRE"
             ELSE IF TargetDriven(state, w) THEN "INPUT_ALREADY_CONNECTED"
             ELSE IF EndpointMissing(state, w) THEN "INVALID_WIRE"
             ELSE IF WrongDirection(state, w) THEN "INVALID_WIRE_DIRECTION"
             ELSE "OK"

\* A wire was refused for its driven target while its source component is
\* not in the circuit.
C27_Witness ==
    /\ last.op = "circuit:wire:add"
    /\ last.code = "INPUT_ALREADY_CONNECTED"
    /\ \A i \in 1..Len(last.before.components) : last.before.components[i].id # "c1"

\* C28: the record of the session creator is never removed and always has
\* role teacher and canEdit true; every other participant is created as a
\* student with canEdit false and has it true only by an approved request.
C28_TeacherKeepsEdit ==
    /\ participants[Teacher] # NoParticipant
    /\ participants[Teacher].role = "teacher"
    /\ participants[Teacher].can_edit
    /\ \A u \in Users \ {Teacher} :
          /\ join_session(u, Teacher).role = "student"
          /\ ~join_session(u, Teacher).can_edit
          /\ participants[u].can_edit => edit_requests[u] = "approved"

\* The teacher asked to revoke the edit permission of a teacher, or to kick
\* one, and was refused.
C28_Witness ==
    /\ last.op \in {"permission:revoke", "permission:kick"}
    /\ last.user = Teacher
    /\ last.code = "FORBIDDEN"
    /\ \E u \in Users \ {Teacher} : participants[u].can_edit

\* The pairs (driving component, driven component) of the wires.
DrivePairs(e) ==
    {<<e.wires[i].from_component_id, e.wires[i].to_component_id>> : i \in 1..Len(e.wires)}

RECURSIVE Reaches(_, _, _, _)
Reaches(pairs, a, b, n) ==
    /\ n > 0
    /\ \E pair \in pairs : pair[1] = a /\ (pair[2] = b \/ Reaches(pairs, pair[2], b, n - 1))

Acyclic(e) ==
    \A i \in 1..Len(e.components) :
       ~Reaches(DrivePairs(e), e.components[i].id, e.components[i].id, Len(e.components))

\* The value of the pin that drives an input pin; X if no wire ends there.
DriverValue(e, component_id, pin_id) ==
    LET at == {i \in 1..Len(e.wires) : /\ e.wires[i].to_component_id = component_id
                                        /\ e.wires[i].to_pin_id = pin_id}
    IN IF at = {} THEN X
       ELSE LET w == e.wires[CHOOSE i \in at : TRUE]
            IN Get(e.pin_values, <<w.from_component_id, w.from_pin_id>>, X)

\* The boolean function of a two-input gate.
GateFunction(type, a, b) ==
    IF a = X \/ b = X THEN X
    ELSE IF type = "AND_2" THEN (IF a = HIGH /\ b = HIGH THEN HIGH ELSE LOW)
    ELSE (IF (a = HIGH) # (b = HIGH) THEN HIGH ELSE LOW)

Started(e) == Len(engine_calls) = 1 /\ engine_calls[1].op = "run" /\ Acyclic(e)

\* C29: after load_circuit and run on an acyclic circuit the event queue is
\* empty and the output pin of every gate holds the gate's function of the
\* values of the pins that drive its inputs.
C29_StartSettlesGates ==
    Started(engines[1]) =>
        /\ engines[1].events = {}
        /\ \A i \in 1..Len(engines[1].components) :
              LET comp == engines[1].components[i]
              IN comp.type \in {"AND_2", "XOR_2"} =>
                    Get(engines[1].pin_values, <<comp.id, "Y">>, X)
                       = GateFunction(comp.type, DriverValue(engines[1], comp.id, "A"),
                                      DriverValue(engines[1], comp.id, "B"))


\* A step call popped an event: the last call is a step that processed one.
StepPopped ==
    /\ engine_calls' # engine_calls
    /\ engine_calls'[Len(engine_calls')].op = "step"
    /\ engine_calls'[Len(engine_calls')].processed = 1

\* C30: step processes the pending event with the smallest (time, seq), so
\* events scheduled for the same time are processed in the order they were
\* scheduled, and the simulated time never decreases over a call.
C30_StepPopsSmallest ==
    [][\A i \in 1..2 :
          /\ engines'[i].time >= engines[i].time
          /\ StepPopped =>
                /\ engines[i].events \ engines'[i].events # {}
                /\ \A ev \in engines[i].events \ engines'[i].events :
                      /\ engines'[i].time = ev.time
                      /\ \A o \in engines[i].events \ {ev} :
                            ev.time < o.time \/ (ev.time = o.time /\ ev.seq < o.seq)]_vars

\* Two calls in a row scheduled an event each for the same time, the step
\* after them popped one and the other is still queued for that time.
C30_Witness ==
    LET n == Len(engine_calls) IN
    /\ n >= 3
    /\ engine_calls[n].op = "step"
    /\ engine_calls[n].processed = 1
    /\ engine_calls[n - 1].op \in {"toggle_switch", "tick_clock", "set_input"}
    /\ engine_calls[n - 2].op \in {"toggle_switch", "tick_clock", "set_input"}
    /\ \E e \in engines[1].events : e.time = engines[1].time /\ e.seq + 2 = engines[1].seq


\* C31: with a CLOCK wired to the CLK input of a COUNTER_4BIT, after n
\* calls of tick_clock, each followed by run, the counter holds
\* ceil(n / 2) mod 16, in its stored count and on its pins Q0..Q3: one more
\* for each LOW-to-HIGH transition, 0 after 15, unchanged on HIGH-to-LOW.
C31_CounterCountsRisingEdges ==
    LastOp # "tick_clock" =>
        LET n == Len(engine_calls) \div 2
            expected == ((n + 1) \div 2) % 16
        IN \A k \in 1..2 :
              /\ Get(engines[k].internal["CNT"], "count", 0) = expected
              /\ \A i \in 0..3 :
                    get_pin_states(engines[k], "CNT", <<"Q0", "Q1", "Q2", "Q3">>[i + 1]) =
                       IF (expected \div (2 ^ i)) % 2 = 1 THEN HIGH ELSE LOW

\* The counter has counted sixteen rising edges and holds 0 again.
C31_Witness ==
    /\ LastOp = "run"
    /\ Len(engine_calls) \div 2 >= 31
    /\ Get(engines[1].internal["CNT"], "count", 15) = 0
    /\ get_pin_states(engines[1], "CNT", "Q3") = LOW


\* The Q a D flip-flop has stored.
StoredQ(e) == Get(e.internal["DFF"], "Q", LOW)

\* A rising edge of the pin that drives DFF.CLK can reach the flip-flop
\* in this call: a step pops an event that raises the pin from LOW, a run
\* finds such an event queued.
ClockMayRise(e, e_next) ==
    IF LastOp' = "step"
    THEN \E ev \in e.events \ e_next.events :
            /\ ev.component_id = "SW2" /\ ev.pin_id = "OUT" /\ ev.value = HIGH
            /\ Get(e.pin_values, <<"SW2", "OUT">>, X) = LOW
    ELSE /\ LastOp' = "run"
         /\ \E ev \in e.events :
               ev.component_id = "SW2" /\ ev.pin_id = "OUT" /\ ev.value = HIGH

\* C32: the Q a D flip-flop has stored changes only in a call in which the
\* pin driving its CLK input goes from LOW to HIGH; a change on D while that
\* pin is steady, also steady at HIGH since load_circuit, leaves Q as it is.
C32_QChangesOnRisingEdgeOnly ==
    [][\A k \in 1..2 :
          (/\ components_get(engines[k], "DFF") # NoComponent
           /\ StoredQ(engines'[k]) # StoredQ(engines[k]))
             => ClockMayRise(engines[k], engines'[k])]_vars


\* The input pins of the components that are no input devices, as
\* (component id, pin id) pairs.
DrivenPins(state) ==
    UNION { {<<state.components[i].id, state.components[i].pins[j].id>> :
                j \in {p \in 1..Len(state.components[i].pins) :
                         state.components[i].pins[p].type = "input"}} :
            i \in {c \in 1..Len(state.components) :
                     state.components[c].type \notin INPUT_DEVICES} }

\* The wires of the state that end at the pin.
WiresInto(state, key) ==
    {k \in 1..Len(state.wires) :
        <<state.wires[k].to_component_id, state.wires[k].to_pin_id>> = key}

\* C33: the validation reports OUTPUT_CONFLICT for every input pin that is
\* the target of more than one wire, whatever the wires' sources, and
\* FLOATING_INPUT with component id and pin id for every input pin of a
\* component that is no input device and is the target of no wire; it
\* returns no error exactly when every such pin has exactly one wire.
C33_ValidationFindsEveryFault ==
    LET state == CurrentState
        errors == validate_circuit(state)
        reported == {errors[i] : i \in 1..Len(errors)}
    IN /\ \A key \in DrivenPins(state) :
             /\ Cardinality(WiresInto(state, key)) > 1 =>
                   SimulationError("OUTPUT_CONFLICT", key[1], key[2]) \in reported
             /\ WiresInto(state, key) = {} =>
                   SimulationError("FLOATING_INPUT", key[1], key[2]) \in reported
       /\ errors = <<>> <=>
             \A key \in DrivenPins(state) : Cardinality(WiresInto(state, key)) = 1


\* The simulation message applied by the step, if the step applied one.
Applied == engine_calls'[Len(engine_calls')]

\* C34: each simulation:toggle, simulation:clock:tick and simulation:step
\* is applied to the engine of its session in one piece, on the engine as
\* the messages applied before it left it, whatever other messages of the
\* session are in flight; and a message of one session leaves the engine of
\* every other session as it is.
C34_SimulationMessagesSerialized ==
    [][\A code \in SimSessions :
          IF engine_calls' # engine_calls /\ Applied.session = code
          THEN /\ engine_calls' = Append(engine_calls, Applied)
               /\ simulations'[code] =
                     IF Applied.op = "simulation:toggle"
                     THEN run(toggle_switch(simulations[code], Applied.arg),
                              DEFAULT_MAX_STEPS).engine
                     ELSE IF Applied.op = "simulation:clock:tick"
                     THEN run(tick_clock(simulations[code], Applied.arg),
                              DEFAULT_MAX_STEPS).engine
                     ELSE step(simulations[code])
          ELSE simulations'[code] = simulations[code]]_vars

\* A message of the first session was applied and changed its engine while
\* another message of that session, received on another connection, was
\* waiting between its receipt and its application, and the second session
\* has had a message applied too.
C34_Witness ==
    /\ Len(engine_calls) >= 2
    /\ engine_calls[Len(engine_calls)].session = "S1"
    /\ \E i \in 1..Len(engine_calls) : engine_calls[i].session = "S2"
    /\ \E c \in online : SessionOf(c.participant_id) = "S1" /\ calls[c].pc = "broadcast"
    /\ \E c \in online : SessionOf(c.participant_id) = "S1" /\ calls[c].pc = "get_participant"
    /\ simulations["S1"].time > 0


\* The events of the log with a version up to the given one.
EventsUpTo(version) == SelectSeq(get_all_events(events), LAMBDA e : e.version <= version)

\* C35: every stored snapshot of version V holds the fold of the events
\* with version <= V, also when other commands append events while it is
\* taken, so that the state read from it and the events after V is the fold
\* of the whole log, no event applied twice.
C35_SnapshotHoldsItsPrefix ==
    /\ \A sn \in snapshots :
          View(StateValidate(sn.state)) =
             View(Fold(create_empty, EventsUpTo(sn.version), 1, Len(EventsUpTo(sn.version))))
    /\ View(get_circuit_state(snapshots, events)) =
          View(Fold(create_empty, get_all_events(events), 1, Len(events)))


\* C36: in every reconstructed state, whatever commands, undos and redos
\* the users have sent, every wire leaves an output pin and enters an input
\* pin of components that are in the state: no wire refers to a component
\* that has been deleted.
C36_WiresHaveBothEnds ==
    LET state == CurrentState
    IN \A i \in 1..Len(state.wires) :
          /\ HasPin(state, state.wires[i].from_component_id, state.wires[i].from_pin_id,
                    {"output"})
          /\ HasPin(state, state.wires[i].to_component_id, state.wires[i].to_pin_id,
                    {"input"})


\* C37: while a student is without edit permission, as after a revoke by
\* the teacher and until a new grant, no event with the student's user id
\* is appended to the log, whatever the student sends, circuit:undo and
\* circuit:redo included.
C37_RevokedStudentAppendsNothing ==
    [][\A u \in Students :
          (participants[u] # NoParticipant /\ ~participants[u].can_edit) =>
             \A i \in Len(events) + 1..Len(events') : events'[i].userId # u]_vars


\* C38: between connects and disconnects the two maps of the room manager
\* agree: every connection in the room is the one recorded under its
\* participant id, and every recorded connection is in the room.
C38_RoomMapsAgree ==
    /\ \A conn \in room_manager.rooms :
          room_manager.connections[conn.participant_id] = conn
    /\ \A p \in Users :
          room_manager.connections[p] # NoConnection =>
             room_manager.connections[p] \in room_manager.rooms


\* The call of the connection ends in this step.
CallEnded(conn) == calls[conn].pc \notin {"idle", "sync"} /\ calls'[conn].pc = "idle"

\* C39: a connection that joins while others edit misses no event.  The
\* state sent as sync:state holds every event appended before it is read;
\* and when a call ends, every event it appended has been sent as a delta
\* to every connection that joined and is in the room, once its sync:state
\* has been read.
C39_JoinerMissesNoEvent ==
    [][\A conn \in Connections :
          /\ (calls[conn].pc = "sync" /\ calls'[conn].pc = "idle") =>
                last'.state.version = get_latest_version(events)
          /\ CallEnded(conn) =>
                \A k \in 1..Len(calls[conn].ret) :
                   \A to \in room_manager'.rooms \ Registered({Teacher, "s1"}).rooms :
                      calls'[to].pc # "sync" =>
                         /\ Len(last'.sent) >= k
                         /\ to \in last'.sent[k]]_vars


\* The call of the connection broadcasts its deltas in this step.
Broadcasts(conn) == calls[conn].pc = "finish" /\ calls'[conn].pc = "idle"

\* C40: the deltas of a session's events are broadcast in the order of the
\* event versions, also for commands of different connections that run
\* concurrently: when a call broadcasts the deltas of its events, no event
\* of a lower version is still waiting for its broadcast.
C40_DeltasInVersionOrder ==
    [][\A conn \in Connections :
          Broadcasts(conn) =>
             \A other \in {c \in Connections \ {conn} : calls[c].pc # "idle"} :
                \A i \in 1..Len(calls[conn].ret), j \in 1..Len(calls[other].ret) :
                   calls[conn].ret[i].version < calls[other].ret[j].version]_vars

====
